---- MODULE Spec2Model ----
(***************************************************************************)
(* CodeGen CLI: the template scaffolding engine.                           *)
(*                                                                         *)
(*   src/src/commands/generate.js   generateProject, scaffoldProject,      *)
(*                                  createPackageJson, get*ForFramework    *)
(*   src/src/cli.js (lines 112-767: utils/templates.js)  TemplateManager   *)
(*                                                                         *)
(* Text is a sequence of chunks (strings).  The two substitution tokens    *)
(* are chunks of their own, so that a global regular-expression replace is *)
(* a map over the chunks.  A project name is a sequence of characters, so  *)
(* that the package-name rules can be computed on it.  A directory is a    *)
(* function from relative file paths to contents.                          *)
(***************************************************************************)
EXTENDS Integers, Sequences, FiniteSets, TLC

VARIABLES
  templatesRoot,  \* the templates directory: template dir name -> directory
  tmPc,           \* TemplateManager: "constructed" | "ready"
  target,         \* the directory at projectPath: [exists, files]
  preTarget,      \* history: target as it was when the process started
  request,        \* the options handed to generateProject
  pc,             \* position of generateProject / scaffoldProject
  listing,        \* result of listTemplates() inside generateFromTemplate
  template,       \* name of the template dir chosen by generateFromTemplate
  featIdx,        \* loop index of "for (const feature of details.features)"
  log,            \* history: the pipeline steps executed, in order
  thrown,         \* the error raised where the failure happened
  outcome,        \* what generateProject returns or rejects with
  packageJson,    \* the manifest object built by createPackageJson
  fproj,          \* feature composer: files of the project directory
  fbase,          \* history: fproj before the current run of equal features
  fprev,          \* history: fproj before the last addFeature
  flast,          \* the feature applied last
  fcount,         \* how many times flast was applied in succession
  fframework,     \* projectDetails.framework of the composed project
  fapplied,       \* number of addFeature calls made on fproj
  ferror,         \* the error of the last addFeature ("none" if it returned)
  mframework,     \* manifest builder: framework argument
  mfeatures,      \* manifest builder: features argument
  mpackage,       \* the packageJson object built from them
  mpc,            \* "input" | "built"
  stemplate,      \* substitution: content of one template file, a string
  soptions,       \* the name and description the caller supplies
  swritten,       \* the content written for that file into the target
  spc,            \* "input" | "written"
  rprev,          \* registry: history, templatesRoot before the last operation
  rop,            \* the last registry operation, its argument and how it ended
  rcount,         \* number of registry operations made
  cfgFile,        \* configuration: the persisted document (config.json)
  cfgMem,         \* this.config of each ConfigManager instance
  cfgReady,       \* the instances whose init() has completed
  cfgWrites,      \* the fs.writeJson calls in flight
  cfgLast,        \* history: the updateConfig / resetToDefaults completed last
  cfgIssued,      \* number of updateConfig / resetToDefaults calls made
  cfgUsers,       \* history: the instances that made those calls
  cfgAllSaved,    \* history: no write has failed so far
  reply,          \* web: the response of POST /api/generate
  atTimeout,      \* history: the target directory when the timeout fired
  sent,           \* web: number of responses sent for the request
  tmDir,          \* this.templatesDir of the TemplateManager
  tmCreate,       \* how far createDefaultTemplates has come
  cfgTemplatesDir, \* templatesDirectory of the persisted configuration
  racePc,         \* concurrent generations: position of each generateProject
  raceOptions,    \* the options handed to each of them
  raceTemplate    \* the template dir each of them chose

genVars == <<templatesRoot, tmPc, target, preTarget, request, pc, listing,
             template, featIdx, log, thrown, outcome, packageJson>>
featVars == <<fproj, fbase, fprev, flast, fcount, fframework, fapplied, ferror>>
manVars == <<mframework, mfeatures, mpackage, mpc>>
subVars == <<stemplate, soptions, swritten, spc>>
regVars == <<rprev, rop, rcount>>
cfgVars == <<cfgFile, cfgMem, cfgReady, cfgWrites, cfgLast, cfgIssued, cfgUsers,
             cfgAllSaved>>
webVars == <<reply, atTimeout, sent>>
startVars == <<tmDir, tmCreate, cfgTemplatesDir>>
raceVars == <<racePc, raceOptions, raceTemplate>>
auxVars == <<subVars, regVars, cfgVars, webVars, startVars, raceVars>>
vars == <<genVars, featVars, manVars, auxVars>>

(***************************************************************************)
(* Bounds of the model.                                                    *)
(***************************************************************************)
MaxFeatures == 2          \* length of a request's feature list
MaxApply == 3             \* addFeature calls in one composer run
MaxManifestFeatures == 3  \* length of the manifest builder's feature list
MaxFragments == 3   \* pieces of a template file in SpecSubstitute
MaxRegistryOps == 2        \* registry operations in one SpecRegistry run
MaxConfigCalls == 2        \* updateConfig / resetToDefaults calls in one run
MaxWebFeatures == 1        \* length of a web request\'s feature list

(***************************************************************************)
(* Sequence helpers.                                                       *)
(***************************************************************************)
\* The concatenation of a sequence of sequences.
Flatten(ss) ==
  LET upTo[i \in 0..Len(ss)] == IF i = 0 THEN <<>> ELSE upTo[i - 1] \o ss[i]
  IN  upTo[Len(ss)]

Includes(seq, x) == \E i \in 1..Len(seq) : seq[i] = x

IsPrefix(s, t) == Len(s) <= Len(t) /\ SubSeq(t, 1, Len(s)) = s

SeqsUpTo(S, n) == UNION {[1..k -> S] : k \in 0..n}

\* Every order in which the elements of S can be enumerated.
RECURSIVE Orders(_)
Orders(S) ==
  IF S = {} THEN {<<>>}
  ELSE UNION {{<<x>> \o s : s \in Orders(S \ {x})} : x \in S}

(***************************************************************************)
(* Substitution tokens and the replacement of String.prototype.replace.    *)
(***************************************************************************)
PN == "{{projectName}}"
PD == "{{projectDescription}}"

\* A replacement string is expanded per match: "$$" inserts "$" and "$&"
\* inserts the matched text; anything else is inserted as it is.
ExpandReplacement(replacement, matched) ==
  Flatten([i \in 1..Len(replacement) |->
             IF replacement[i] = "$$" THEN <<"$">>
             ELSE IF replacement[i] = "$&" THEN <<matched>>
             ELSE <<replacement[i]>>])

\* content.replace(/token/g, replacement); the subject and the expanded
\* replacement are values computed once.
ReplaceAll(content, token, replacement) ==
  LET Replaced(text, inserted) ==
        Flatten([i \in 1..Len(text) |->
                   IF text[i] = token THEN inserted ELSE <<text[i]>>])
  IN  CHOOSE result \in {Replaced(text, inserted) :
                           text \in {content},
                           inserted \in {ExpandReplacement(replacement, token)}} : TRUE

\* The two replaces of scaffoldFromTemplate, in the code's order.  The first
\* replacement is the method's second parameter, which scaffoldProject binds
\* to details.projectPath.
ReplaceVariables(content, projectName, projectDetails) ==
  ReplaceAll(ReplaceAll(content, PN, projectName), PD,
             projectDetails.description)

\* The same replace on a whole string: the matches of a global regular
\* expression for a literal token are found from left to right, without
\* overlap, in the subject as it was before the call.
RECURSIVE Join(_)
Join(pieces) == IF pieces = <<>> THEN "" ELSE Head(pieces) \o Join(Tail(pieces))

Contains(text, token) ==
  \E i \in 1..(Len(text) - Len(token) + 1) :
    SubSeq(text, i, i + Len(token) - 1) = token

RECURSIVE ExpandString(_, _)
ExpandString(replacement, matched) ==
  IF Len(replacement) < 2 THEN replacement
  ELSE IF SubSeq(replacement, 1, 2) = "$$"
    THEN "$" \o ExpandString(SubSeq(replacement, 3, Len(replacement)), matched)
  ELSE IF SubSeq(replacement, 1, 2) = "$&"
    THEN matched \o ExpandString(SubSeq(replacement, 3, Len(replacement)), matched)
  ELSE SubSeq(replacement, 1, 1)
       \o ExpandString(SubSeq(replacement, 2, Len(replacement)), matched)

RECURSIVE ReplaceString(_, _, _)
ReplaceString(text, token, replacement) ==
  IF Len(text) < Len(token) THEN text
  ELSE IF SubSeq(text, 1, Len(token)) = token
    THEN ExpandString(replacement, token)
         \o ReplaceString(SubSeq(text, Len(token) + 1, Len(text)), token, replacement)
  ELSE SubSeq(text, 1, 1)
       \o ReplaceString(SubSeq(text, 2, Len(text)), token, replacement)

\* The two replaces of scaffoldFromTemplate on the text of one file.
SubstituteText(content, projectName, projectDetails) ==
  ReplaceString(ReplaceString(content, PN, projectName), PD,
                Join(projectDetails.description))

(***************************************************************************)
(* Project names and paths.                                                *)
(***************************************************************************)
DemoApp == <<"d", "e", "m", "o", "-", "a", "p", "p">>
InvalidName == <<"I", "n", "v", "a", "l", "i", "d", " ", "N", "a", "m", "e", "!">>
NoText == <<>>   \* the empty string; also stands for an absent (undefined) field

LowerChars == {"a", "d", "e", "i", "l", "m", "n", "o", "p", "v"}
UpperChars == {"I", "N"}
SpecialChars == {"~", "'", "!", "(", ")", "*"}
UrlFriendlyChars == LowerChars \cup UpperChars \cup SpecialChars \cup {"-", ".", "_"}

\* validate-npm-package-name: validForNewPackages is "no error and no warning".
ValidForNewPackages(name) ==
  /\ Len(name) > 0
  /\ Len(name) <= 214
  /\ name[1] \notin {".", "_"}
  /\ name[1] # " " /\ name[Len(name)] # " "
  /\ \A i \in 1..Len(name) :
       /\ name[i] \notin UpperChars
       /\ name[i] \notin SpecialChars
       /\ name[i] \in UrlFriendlyChars

validateProjectName(name) == ValidForNewPackages(name)

\* path.join(homeDir, 'Downloads')
getDownloadsPath == <<"/home/user", "/", "Downloads">>

\* path.join(downloadsPath, projectDetails.name)
ProjectPath(name) == getDownloadsPath \o <<"/">> \o name

(***************************************************************************)
(* Directories.                                                            *)
(***************************************************************************)
EmptyFiles == [p \in {} |-> <<>>]

\* Every relative path the program writes, in the order in which a directory
\* is enumerated by the model.
AllPaths ==
  <<"old.txt", "index.html", "style.css", "script.js", "index.ts", "index.js",
    "src/App.tsx", "src/App.jsx", "src/App.vue", "src/main.tsx",
    "src/main.jsx", "src/main.ts", "src/main.js", "src/index.css",
    "vite.config.js", "tsconfig.json", "README.md", ".eslintrc.json",
    ".prettierrc", "jest.config.json", "tailwind.config.js", "Dockerfile",
    ".dockerignore", "package.json">>

\* glob('**/*', {cwd, nodir: true}) on a directory
GlobFiles(files) == SelectSeq(AllPaths, LAMBDA p : p \in DOMAIN files)

\* fs.writeFile / fs.writeJson of one file
WriteFile(files, path, content) ==
  [p \in DOMAIN files \cup {path} |-> IF p = path THEN content ELSE files[p]]

\* The first k writes of a sequence of <<path, content>> pairs: a path
\* written holds what the last of the writes to it put there.
ApplyWrites(files, writes, k) ==
  LET written == {writes[i][1] : i \in 1..k}
      last(p) == CHOOSE i \in 1..k :
                   writes[i][1] = p /\ \A j \in (i + 1)..k : writes[j][1] # p
  IN  [p \in DOMAIN files \cup written |->
         IF p \in written THEN writes[last(p)][2] ELSE files[p]]

\* fs.remove stopped after its first k deletions.
RemoveFirst(files, k) ==
  LET gone == {GlobFiles(files)[i] : i \in 1..k}
  IN  [p \in DOMAIN files \ gone |-> files[p]]

(***************************************************************************)
(* TemplateManager: the files of the built-in frameworks.                  *)
(***************************************************************************)
TsConfigReact == <<"{compilerOptions: {target: ES2020, jsx: react-jsx}, include: [src]}">>
TsConfigExpress == <<"{compilerOptions: {target: ES2020, module: commonjs}, include: [**/*]}">>

createReactTemplate(features) ==
  LET isTypeScript == Includes(features, "typescript")
      ext == IF isTypeScript THEN "tsx" ELSE "jsx"
      appContent ==
        (IF isTypeScript THEN <<"import React from 'react';">> ELSE <<>>)
        \o <<"function App() { <h1>Welcome to ", PN,
             "</h1> } export default App;">>
      indexContent == <<"ReactDOM.createRoot(root).render(<App />);">>
      cssContent == <<"body { margin: 0; } .App { text-align: center; }">>
      htmlContent == <<"<title>", PN, "</title><script src=/src/main.", ext, ">">>
      viteConfig == <<"export default defineConfig({ plugins: [react()] })">>
  IN  ("src/App." \o ext :> appContent)
      @@ ("src/main." \o ext :> indexContent)
      @@ ("src/index.css" :> cssContent)
      @@ ("index.html" :> htmlContent)
      @@ ("vite.config.js" :> viteConfig)
      @@ (IF isTypeScript THEN "tsconfig.json" :> TsConfigReact ELSE EmptyFiles)

createVueTemplate(features) ==
  LET isTypeScript == Includes(features, "typescript")
      ext == IF isTypeScript THEN "ts" ELSE "js"
      appContent == <<"<template><h1>Welcome to ", PN, "</h1></template><script",
                      IF isTypeScript THEN " lang=ts" ELSE "", ">">>
      mainContent == <<"createApp(App).mount('#app')">>
      htmlContent == <<"<title>", PN, "</title><script src=/src/main.", ext, ">">>
  IN  ("src/App.vue" :> appContent)
      @@ ("src/main." \o ext :> mainContent)
      @@ ("index.html" :> htmlContent)

createExpressTemplate(features) ==
  LET isTypeScript == Includes(features, "typescript")
      ext == IF isTypeScript THEN "ts" ELSE "js"
      indexContent ==
        <<IF isTypeScript THEN "import express from 'express';"
                          ELSE "const express = require('express');",
          "app.get('/', message: 'Welcome to ", PN,
          " API'); app.get('/health'); app.listen(PORT);">>
  IN  ("index." \o ext :> indexContent)
      @@ (IF isTypeScript THEN "tsconfig.json" :> TsConfigExpress ELSE EmptyFiles)

createVanillaTemplate(features) ==
  LET htmlContent == <<"<title>", PN, "</title><h1>Welcome to ", PN,
                       "</h1><button id=clickBtn>">>
      cssContent == <<"* { margin: 0; } button { cursor: pointer; }">>
      jsContent == <<"clickCount++; console.log('", PN,
                     " initialized successfully!');">>
  IN  ("index.html" :> htmlContent)
      @@ ("style.css" :> cssContent)
      @@ ("script.js" :> jsContent)

createGenericTemplate(features) ==
  "README.md" :> (<<"# ", PN, " ## Features">>
                  \o [i \in 1..Len(features) |-> "- " \o features[i]]
                  \o <<"## License MIT">>)

\* The switch of generateTemplateFiles.
generateTemplateFiles(templateData) ==
  CASE templateData.framework = "react" -> createReactTemplate(templateData.features)
    [] templateData.framework = "vue" -> createVueTemplate(templateData.features)
    [] templateData.framework = "express" -> createExpressTemplate(templateData.features)
    [] templateData.framework = "vanilla" -> createVanillaTemplate(templateData.features)
    [] OTHER -> createGenericTemplate(templateData.features)

\* A template directory: its template.json ("valid", "corrupt" or "none"),
\* the framework and features the manifest declares, and its other files.
TemplateDir(manifest, framework, features, files) ==
  [manifest |-> manifest, framework |-> framework, features |-> features,
   files |-> files]

\* createTemplate: ensureDir, write template.json, write the framework's
\* files over whatever the directory already holds.
createTemplate(root, templateData) ==
  LET old == IF templateData.name \in DOMAIN root
               THEN root[templateData.name].files ELSE EmptyFiles
      dir == TemplateDir("valid", templateData.framework, templateData.features,
                         generateTemplateFiles(templateData) @@ old)
  IN  [n \in DOMAIN root \cup {templateData.name} |->
         IF n = templateData.name THEN dir ELSE root[n]]

defaultTemplates ==
  << [name |-> "react-basic", framework |-> "react",
      features |-> <<"typescript", "eslint", "prettier">>],
     [name |-> "vue-starter", framework |-> "vue",
      features |-> <<"typescript", "eslint", "prettier">>],
     [name |-> "express-api", framework |-> "express",
      features |-> <<"typescript", "eslint", "jest">>] >>

RECURSIVE CreateAll(_, _)
CreateAll(root, templates) ==
  IF templates = <<>> THEN root
  ELSE CreateAll(createTemplate(root, Head(templates)), Tail(templates))

createDefaultTemplates(root) == CreateAll(root, defaultTemplates)

\* path.join(this.templatesDir, '') is the templates root itself: what a
\* template named '' holds lies directly in the root.
RootDir == ""

\* fs.readdir(this.templatesDir): the subdirectories of the root.  The files
\* and directories a template named '' put into the root are entries too,
\* but none of them holds a template.json, so listTemplates skips them.
Readdir(root) == DOMAIN root \ {RootDir}

\* listTemplates with the directory enumerated in the given order: a
\* directory without template.json is skipped; a template.json that cannot
\* be read throws inside the try block, and the catch returns [].
listTemplates(root, order) ==
  IF \E i \in 1..Len(order) : root[order[i]].manifest = "corrupt"
    THEN <<>>
    ELSE LET kept == SelectSeq(order, LAMBDA n : root[n].manifest = "valid")
         IN  [i \in 1..Len(kept) |->
                [name |-> kept[i], framework |-> root[kept[i]].framework,
                 files |-> GlobFiles(root[kept[i]].files)]]

\* ensureDefaultTemplates: the built-ins are created when the listing is empty.
ensureDefaultTemplates(root, order) ==
  IF Len(listTemplates(root, order)) = 0 THEN createDefaultTemplates(root)
  ELSE root

(***************************************************************************)
(* TemplateManager: resolution and scaffolding.                            *)
(***************************************************************************)
\* Mutant of FindTemplate: no fallback to templates[0].
FindTemplateNoFallback(templates, framework) ==
  LET matches == {i \in 1..Len(templates) : templates[i].framework = framework}
  IN  IF matches # {} THEN CHOOSE i \in matches : \A j \in matches : i <= j
      ELSE 0

\* templates.find(t => t.framework === framework) || templates[0]; the
\* result is 0 when there is no template (undefined).
FindTemplate(templates, framework) ==
  LET matches == {i \in 1..Len(templates) : templates[i].framework = framework}
  IN  IF matches # {} THEN CHOOSE i \in matches : \A j \in matches : i <= j
      ELSE IF Len(templates) > 0 THEN 1
      ELSE 0

\* Mutant of ResolveTemplate: a template named by projectDetails.template
\* is preferred.
ResolveTemplateByName(templates, framework, projectDetails) ==
  LET named == {i \in 1..Len(templates) : templates[i].name = projectDetails.template}
  IN  IF named # {} THEN CHOOSE i \in named : \A j \in named : i <= j
      ELSE FindTemplate(templates, framework)

\* generateFromTemplate(framework, projectName, projectDetails): the
\* template is looked up by the framework; projectDetails is only handed on
\* to scaffoldFromTemplate.
ResolveTemplate(templates, framework, projectDetails) ==
  FindTemplate(templates, framework)

\* scaffoldFromTemplate: one write per file of the template directory.
ScaffoldWrites(templateFiles, projectName, projectDetails) ==
  LET files == GlobFiles(templateFiles)
  IN  [i \in 1..Len(files) |->
         <<files[i],
           ReplaceVariables(templateFiles[files[i]], projectName, projectDetails)>>]

(***************************************************************************)
(* TemplateManager: the feature composer.                                  *)
(***************************************************************************)
EslintConfig(framework) ==
  <<"{env: {browser, es2021, node}, extends: [eslint:recommended">>
  \o (IF framework = "react"
        THEN <<", @eslint/js/recommended, plugin:react/recommended">> ELSE <<>>)
  \o <<"], parserOptions: {ecmaVersion: 12, sourceType: module}, rules: {}">>
  \o (IF framework = "react"
        THEN <<", plugins: [react], settings: {react: {version: detect}}">>
        ELSE <<>>)
  \o <<"}">>

PrettierConfig ==
  <<"{semi: true, trailingComma: es5, singleQuote: true, printWidth: 80, tabWidth: 2}">>

JestConfig(framework) ==
  IF framework = "react"
    THEN <<"{testEnvironment: jsdom, setupFilesAfterEnv: [<rootDir>/src/setupTests.js]}">>
    ELSE <<"{testEnvironment: node}">>

TailwindConfig ==
  <<"export default { content: [./index.html, ./src/**/*.{js,ts,jsx,tsx,vue}], theme: {extend: {}}, plugins: [] }">>

TailwindDirectives ==
  <<"@tailwind base;", "@tailwind components;", "@tailwind utilities;", "">>

Dockerfile == <<"FROM node:18-alpine; WORKDIR /app; RUN npm ci; EXPOSE 3000; CMD [npm, start]">>
DockerIgnore == <<"node_modules npm-debug.log .git .gitignore README.md .env coverage .vscode">>

\* What one feature method does to a project directory: the writes it
\* performs, in order, and the error it raises itself ("none" when it does
\* not; an error of the file system can strike any of its writes besides).
Run(writes, error) == [writes |-> writes, error |-> error]

\* Mutant of addESLint: the configuration depends on whether addPrettier
\* has run before.
addESLintAfterPrettier(files, projectDetails) ==
  Run(<< <<".eslintrc.json",
           EslintConfig(projectDetails.framework)
           \o (IF ".prettierrc" \in DOMAIN files THEN <<"extends prettier">> ELSE <<>>)>> >>,
      "none")

addESLint(files, projectDetails) ==
  Run(<< <<".eslintrc.json", EslintConfig(projectDetails.framework)>> >>, "none")

addPrettier(files) == Run(<< <<".prettierrc", PrettierConfig>> >>, "none")

addJest(files, projectDetails) ==
  Run(<< <<"jest.config.json", JestConfig(projectDetails.framework)>> >>, "none")

\* Mutant of addTailwind: the directives are not prepended to a
\* src/index.css that already begins with them.
addTailwindOnce(files, projectDetails) ==
  IF "src/index.css" \in DOMAIN files
     /\ ~IsPrefix(TailwindDirectives, files["src/index.css"])
    THEN Run(<< <<"tailwind.config.js", TailwindConfig>>,
                <<"src/index.css",
                  TailwindDirectives \o files["src/index.css"]>> >>, "none")
    ELSE Run(<< <<"tailwind.config.js", TailwindConfig>> >>, "none")

\* Mutant of addTailwind: the directives are put after the prior content.
addTailwindAppends(files, projectDetails) ==
  IF "src/index.css" \in DOMAIN files
    THEN Run(<< <<"tailwind.config.js", TailwindConfig>>,
                <<"src/index.css", files["src/index.css"] \o TailwindDirectives>> >>,
             "none")
    ELSE Run(<< <<"tailwind.config.js", TailwindConfig>> >>, "none")

\* The config is written first; src/index.css is read and rewritten only
\* if fs.pathExists finds it.
addTailwind(files, projectDetails) ==
  LET cssPath == "src/index.css"
  IN  IF cssPath \in DOMAIN files
        THEN Run(<< <<"tailwind.config.js", TailwindConfig>>,
                    <<cssPath, TailwindDirectives \o files[cssPath]>> >>, "none")
        ELSE Run(<< <<"tailwind.config.js", TailwindConfig>> >>, "none")

addDocker(files, projectDetails) ==
  Run(<< <<"Dockerfile", Dockerfile>>, <<".dockerignore", DockerIgnore>> >>, "none")

\* Mutant of FeatureRun: a feature without a case is an error.
FeatureRunRejectsUnknown(files, feature, projectDetails) ==
  CASE feature = "eslint" -> addESLint(files, projectDetails)
    [] feature = "prettier" -> addPrettier(files)
    [] feature = "jest" -> addJest(files, projectDetails)
    [] feature = "tailwind" -> addTailwind(files, projectDetails)
    [] feature = "docker" -> addDocker(files, projectDetails)
    [] OTHER -> Run(<<>>, "unsupported")

\* The switch of addFeature; its default branch only logs.
FeatureRun(files, feature, projectDetails) ==
  CASE feature = "eslint" -> addESLint(files, projectDetails)
    [] feature = "prettier" -> addPrettier(files)
    [] feature = "jest" -> addJest(files, projectDetails)
    [] feature = "tailwind" -> addTailwind(files, projectDetails)
    [] feature = "docker" -> addDocker(files, projectDetails)
    [] OTHER -> Run(<<>>, "none")

\* The numbers of writes after which a run can stop with an error: before
\* any of its writes (the file system), or after all of them (its own).
FailurePoints(run) ==
  0..(Len(run.writes) - 1)
  \cup (IF run.error # "none" THEN {Len(run.writes)} ELSE {})

\* The project directory after addFeature; the error is the method's own.
addFeature(files, feature, projectDetails) ==
  LET run == FeatureRun(files, feature, projectDetails)
  IN  [files |-> ApplyWrites(files, run.writes, Len(run.writes)),
       error |-> run.error]

(***************************************************************************)
(* The manifest builder.  A JavaScript object is a sequence of <<key,      *)
(* value>> pairs in insertion order.                                       *)
(***************************************************************************)
Keys(entries) == [i \in 1..Len(entries) |-> entries[i][1]]

\* Property names every object literal inherits from Object.prototype: a
\* lookup baseScripts[framework] finds a function under the first ones and
\* Object.prototype itself under "__proto__".
InheritedFunctionKeys ==
  {"constructor", "toString", "valueOf", "hasOwnProperty", "isPrototypeOf",
   "propertyIsEnumerable", "toLocaleString"}
ProtoKey == "__proto__"

\* Mutant of BaseScripts: the table has no entry for vue.
BaseScriptsWithoutVue(framework) ==
  CASE framework = "react" ->
         [kind |-> "object",
          entries |-> << <<"dev", "vite">>, <<"build", "vite build">>,
                         <<"preview", "vite preview">> >>]
    [] framework = "express" ->
         [kind |-> "object",
          entries |-> << <<"start", "node index.js">>,
                         <<"dev", "nodemon index.js">> >>]
    [] OTHER -> [kind |-> "object", entries |-> << <<"start", "node index.js">> >>]

\* let scripts = baseScripts[framework] || { start: 'node index.js' }
BaseScripts(framework) ==
  CASE framework \in {"react", "vue"} ->
         [kind |-> "object",
          entries |-> << <<"dev", "vite">>, <<"build", "vite build">>,
                         <<"preview", "vite preview">> >>]
    [] framework = "express" ->
         [kind |-> "object",
          entries |-> << <<"start", "node index.js">>,
                         <<"dev", "nodemon index.js">> >>]
    [] framework \in InheritedFunctionKeys -> [kind |-> "function", entries |-> <<>>]
    [] framework = ProtoKey -> [kind |-> "object", entries |-> <<>>]
    [] OTHER -> [kind |-> "object", entries |-> << <<"start", "node index.js">> >>]

getScriptsForFramework(framework, features) ==
  LET base == BaseScripts(framework)
      lint == IF Includes(features, "eslint")
                THEN << <<"lint", "eslint . --ext .js,.jsx,.ts,.tsx">>,
                        <<"lint:fix", "eslint . --ext .js,.jsx,.ts,.tsx --fix">> >>
                ELSE <<>>
      test == IF Includes(features, "jest")
                THEN << <<"test", "jest">>, <<"test:watch", "jest --watch">> >>
                ELSE <<>>
  IN  [kind |-> base.kind, entries |-> base.entries \o lint \o test]

\* baseDependencies[framework]: the table's own entry, or what the object
\* literal inherits under that name, or undefined.
BaseDependencies(framework) ==
  CASE framework = "react" ->
         [kind |-> "object",
          entries |-> << <<"react", "^18.2.0">>, <<"react-dom", "^18.2.0">> >>]
    [] framework = "vue" -> [kind |-> "object", entries |-> << <<"vue", "^3.3.0">> >>]
    [] framework = "express" ->
         [kind |-> "object", entries |-> << <<"express", "^4.18.0">> >>]
    [] framework = "vanilla" -> [kind |-> "object", entries |-> <<>>]
    [] framework \in InheritedFunctionKeys -> [kind |-> "function", entries |-> <<>>]
    [] framework = ProtoKey -> [kind |-> "object", entries |-> <<>>]
    [] OTHER -> [kind |-> "none", entries |-> <<>>]

\* { ...value }: the own enumerable properties of the value; a function and
\* Object.prototype have none.
SpreadOf(value) == IF value.kind = "object" THEN value.entries ELSE <<>>

getDependenciesForFramework(framework, features) ==
  LET found == BaseDependencies(framework)
      base == SpreadOf(IF found.kind = "none"
                         THEN [kind |-> "object", entries |-> <<>>] ELSE found)
  IN  base \o (IF Includes(features, "tailwind")
                 THEN << <<"tailwindcss", "^3.3.0">> >> ELSE <<>>)

\* Mutant of getDevDependenciesForFramework: the React type packages come
\* with typescript whatever the framework.
getDevDependenciesTypesAlways(framework, features) ==
  (IF framework \in {"react", "vue"} THEN << <<"vite", "^4.4.0">> >> ELSE <<>>)
  \o (IF Includes(features, "typescript")
        THEN << <<"typescript", "^5.0.0">>, <<"@types/react", "^18.2.0">>,
                <<"@types/react-dom", "^18.2.0">> >>
        ELSE <<>>)
  \o (IF Includes(features, "eslint") THEN << <<"eslint", "^8.45.0">> >> ELSE <<>>)
  \o (IF Includes(features, "prettier") THEN << <<"prettier", "^3.0.0">> >> ELSE <<>>)
  \o (IF Includes(features, "jest") THEN << <<"jest", "^29.6.0">> >> ELSE <<>>)

getDevDependenciesForFramework(framework, features) ==
  (IF framework \in {"react", "vue"} THEN << <<"vite", "^4.4.0">> >> ELSE <<>>)
  \o (IF Includes(features, "typescript")
        THEN << <<"typescript", "^5.0.0">> >>
             \o (IF framework = "react"
                   THEN << <<"@types/react", "^18.2.0">>,
                           <<"@types/react-dom", "^18.2.0">> >>
                   ELSE <<>>)
        ELSE <<>>)
  \o (IF Includes(features, "eslint") THEN << <<"eslint", "^8.45.0">> >> ELSE <<>>)
  \o (IF Includes(features, "prettier") THEN << <<"prettier", "^3.0.0">> >> ELSE <<>>)
  \o (IF Includes(features, "jest") THEN << <<"jest", "^29.6.0">> >> ELSE <<>>)

\* The packageJson object of createPackageJson.
PackageJson(details) ==
  [name |-> details.name,
   version |-> "1.0.0",
   description |-> <<"A ", details.framework, " project generated with CodeGen CLI">>,
   main |-> "index.js",
   scripts |-> getScriptsForFramework(details.framework, details.features),
   dependencies |-> getDependenciesForFramework(details.framework, details.features),
   devDependencies |-> getDevDependenciesForFramework(details.framework, details.features),
   private |-> "true"]

NoPackageJson ==
  [name |-> <<>>, version |-> "", description |-> <<>>, main |-> "",
   scripts |-> [kind |-> "none", entries |-> <<>>], dependencies |-> <<>>,
   devDependencies |-> <<>>, private |-> ""]

\* JSON.stringify of an object of strings
StringifyEntries(entries) ==
  <<"{">> \o Flatten([i \in 1..Len(entries) |->
                        <<entries[i][1], ":", entries[i][2], ",">>]) \o <<"}">>

\* JSON.stringify(packageJson): a property whose value is a function is left out.
StringifyPackageJson(pkg) ==
  <<"{", "name", ":">> \o pkg.name
  \o <<",", "version", ":", pkg.version, ",", "description", ":">> \o pkg.description
  \o <<",", "main", ":", pkg.main, ",">>
  \o (IF pkg.scripts.kind = "function" THEN <<>>
      ELSE <<"scripts", ":">> \o StringifyEntries(pkg.scripts.entries) \o <<",">>)
  \o <<"dependencies", ":">> \o StringifyEntries(pkg.dependencies)
  \o <<",", "devDependencies", ":">> \o StringifyEntries(pkg.devDependencies)
  \o <<",", "private", ":", pkg.private, "}">>

\* createPackageJson: the one write of the manifest.
PackageJsonWrites(details) ==
  << <<"package.json", StringifyPackageJson(PackageJson(details))>> >>

(***************************************************************************)
(* generateProject: one generation request of a process.                   *)
(***************************************************************************)
FeatureIds == {"typescript", "eslint", "tailwind", "docker", "cypress"}
RequestNames == {NoText, DemoApp, InvalidName}
RequestFrameworks == {"", "react", "vanilla"}

\* The feature list of the documented React project.
DemoFeatures == <<"typescript", "eslint", "prettier">>

Options ==
  [name : RequestNames, framework : RequestFrameworks,
   features : SeqsUpTo(FeatureIds, MaxFeatures) \cup {DemoFeatures}]

NoRequest == [name |-> NoText, framework |-> "", features |-> <<>>]

\* The value of a property an object does not have.
Undefined == "undefined"

\* options.template: the field is optional.
OptionTemplate(options) ==
  IF "template" \in DOMAIN options THEN options.template ELSE Undefined

\* projectDetails as generateProject builds it: no description is copied
\* from the options, so "projectDetails.description || ''" is ''.
ProjectDetails(options) ==
  [name |-> options.name, framework |-> options.framework,
   features |-> options.features, description |-> NoText,
   template |-> OptionTemplate(options),
   projectPath |-> ProjectPath(options.name)]

\* Mutant of ValidateOptions: the package-name check is skipped.
ValidateOptionsRequiredOnly(options) ==
  IF options.name = NoText \/ options.framework = "" THEN "required" ELSE "ok"

\* The checks generateProject makes before it touches the file system.
ValidateOptions(options) ==
  IF options.name = NoText \/ options.framework = "" THEN "required"
  ELSE IF ~validateProjectName(options.name) THEN "invalid"
  ELSE "ok"

NoError == [kind |-> "none", at |-> "none"]
Error(kind, at) == [kind |-> kind, at |-> at]
Pending == [status |-> "pending", error |-> NoError]

\* Mutant of FilesAfterFailure: the catch block removes what was written.
FilesAfterFailureCleanup(files) == EmptyFiles

\* catch (error) { logger.error(...); throw error; } of scaffoldProject and
\* of generateProject: the error is passed on as it is, and nothing on disk
\* is cleaned up.
ScaffoldProjectCatch(error) == error
GenerateProjectCatch(error) == error
FilesAfterFailure(files) == files

NoDir == [exists |-> FALSE, files |-> EmptyFiles]

\* Mutant of fsRemove: a package.json in the directory is kept.
fsRemoveKeepsManifest(dir) ==
  IF "package.json" \in DOMAIN dir.files
    THEN [exists |-> TRUE, files |-> "package.json" :> dir.files["package.json"]]
    ELSE [exists |-> FALSE, files |-> EmptyFiles]

\* Mutant of fsRemove: the directory is left as it is.
fsRemoveNothing(dir) == dir

\* await fs.remove(projectPath): the directory and all it holds are gone
fsRemove(dir) == NoDir

\* Mutant of FeatureAt: the features are taken from the end of the list.
FeatureAtReversed(details, i) == details.features[Len(details.features) + 1 - i]

\* for (const feature of details.features): the feature of the i-th round
FeatureAt(details, i) == details.features[i]

Event(op, arg) == [op |-> op, arg |-> arg]

Stale == <<"stale">>
StaleDir == [exists |-> TRUE,
             files |-> ("old.txt" :> Stale) @@ ("index.html" :> Stale)
                       @@ ("package.json" :> Stale)]
InitialTargets == {NoDir, StaleDir}

EmptyRoot == [n \in {} |-> TemplateDir("none", "", <<>>, EmptyFiles)]
CustomRoot ==
  CreateAll(EmptyRoot,
            << [name |-> "my-react", framework |-> "react", features |-> <<>>],
               [name |-> "my-react-ts", framework |-> "react",
                features |-> <<"typescript">>],
               [name |-> "my-vanilla", framework |-> "vanilla", features |-> <<>>] >>)
StrayRoot ==
  ("notes" :> TemplateDir("none", "", <<>>, "README.md" :> <<"notes">>))
  @@ CreateAll(EmptyRoot,
               << [name |-> "my-vanilla", framework |-> "vanilla",
                   features |-> <<>>] >>)
BrokenRoot ==
  ("broken" :> TemplateDir("corrupt", "", <<>>, EmptyFiles))
  @@ CreateAll(EmptyRoot,
               << [name |-> "my-vanilla", framework |-> "vanilla",
                   features |-> <<>>] >>)
InitialRoots == {EmptyRoot, CustomRoot, StrayRoot, BrokenRoot}

FeatInit ==
  /\ fproj = EmptyFiles /\ fbase = EmptyFiles /\ fprev = EmptyFiles
  /\ flast = "" /\ fcount = 0 /\ fframework = ""
  /\ fapplied = 0 /\ ferror = "none"
ManInit ==
  /\ mframework = "" /\ mfeatures = <<>> /\ mpc = "input"
  /\ mpackage = NoPackageJson

NoTemplateData == [name |-> "", framework |-> "", features |-> <<>>]
NoOp == [op |-> "none", data |-> NoTemplateData, status |-> "ok"]

RegInit == rprev = EmptyRoot /\ rop = NoOp /\ rcount = 0

(***************************************************************************)
(* ConfigManager.  A configuration document is a function from the setting *)
(* keys to their values; two of the fifteen settings are modelled, of two  *)
(* different settings menus.                                               *)
(***************************************************************************)
ConfigKeys == {"logLevel", "defaultFramework"}

ConfigValues(key) ==
  CASE key = "logLevel" -> {"info", "debug"}
    [] key = "defaultFramework" -> {"react", "vue"}

defaultConfig ==
  [key \in ConfigKeys |->
     CASE key = "logLevel" -> "info"
       [] key = "defaultFramework" -> "react"]

\* config.json missing, and config.json holding bytes of two writes.
NoDoc == [key \in ConfigKeys |-> "absent"]
TornDoc == [key \in ConfigKeys |-> "torn"]

\* { ...config, ...updates }
Merge(config, updates) ==
  [key \in DOMAIN config \cup DOMAIN updates |->
     IF key \in DOMAIN updates THEN updates[key] ELSE config[key]]

\* The instances: server.js's (initialised before the routes are served)
\* and settings.js's (init() is never called on it).
WebManager == "server.js"
SettingsManager == "settings.js"
ConfigManagers == {WebManager, SettingsManager}

NoCall ==
  [op |-> "none", manager |-> "", keys |-> {}, before |-> NoDoc,
   after |-> NoDoc, overlapped |-> FALSE, saved |-> TRUE]

CfgInit ==
  /\ cfgFile = NoDoc
  /\ cfgMem = [m \in ConfigManagers |-> defaultConfig]
  /\ cfgReady = {} /\ cfgWrites = {} /\ cfgLast = NoCall
  /\ cfgIssued = 0 /\ cfgUsers = {} /\ cfgAllSaved = TRUE

(***************************************************************************)
(* POST /api/generate: the response to the web caller.                     *)
(***************************************************************************)
NoReply == [status |-> "pending", error |-> ""]
TimedOut == [status |-> "error", error |-> "Project generation timed out"]

WebIdle == reply = NoReply /\ atTimeout = NoDir /\ sent = 0

(***************************************************************************)
(* Process start: the templates directory of the TemplateManager.          *)
(***************************************************************************)
\* this.templatesDir = null in the constructor.
NullDir == "null"
\* defaultConfig.templatesDirectory: path.join(this.configDir, 'templates').
DefaultTemplatesDir == "~/.codegen-cli/templates"
\* A directory the templates menu stored as templatesDirectory.
CustomTemplatesDir == "/srv/templates"

\* createDefaultTemplates has not started.
NotCreating == [template |-> 0, written |-> 0]

StartIdle ==
  tmDir = NullDir /\ tmCreate = NotCreating /\ cfgTemplatesDir = DefaultTemplatesDir

\* Two calls of generateProject in one process.
Racers == {1, 2}

RaceIdle ==
  /\ racePc = [p \in Racers |-> "idle"]
  /\ raceOptions = [p \in Racers |-> NoRequest]
  /\ raceTemplate = [p \in Racers |-> ""]

SubInit ==
  /\ stemplate = "" /\ soptions = [name |-> NoText, description |-> ""]
  /\ swritten = "" /\ spc = "input"

AuxInit == SubInit /\ RegInit /\ CfgInit /\ WebIdle /\ StartIdle /\ RaceIdle

GenIdle ==
  /\ tmPc = "constructed"
  /\ request = NoRequest
  /\ pc = "idle"
  /\ listing = <<>>
  /\ template = ""
  /\ featIdx = 0
  /\ log = <<>>
  /\ thrown = NoError
  /\ outcome = Pending
  /\ packageJson = NoPackageJson

GenInit ==
  /\ templatesRoot \in InitialRoots
  /\ target \in InitialTargets
  /\ preTarget = target
  /\ GenIdle

Init == GenInit /\ FeatInit /\ ManInit /\ AuxInit

\* TemplateManager.init, started by the constructor and never awaited:
\* ensureDefaultTemplates on the templates directory.
TMInit ==
  /\ UNCHANGED <<featVars, manVars, auxVars>>
  /\ tmPc = "constructed"
  /\ \E order \in Orders(Readdir(templatesRoot)) :
       templatesRoot' = ensureDefaultTemplates(templatesRoot, order)
  /\ tmPc' = "ready"
  /\ UNCHANGED <<target, preTarget, request, pc, listing, template, featIdx,
                 log, thrown, outcome, packageJson>>

\* A step fails: the error reaches the caller through the catch blocks.
Fail(kind, at, inScaffoldProject) ==
  /\ pc' = "failed"
  /\ thrown' = Error(kind, at)
  /\ outcome' = [status |-> "rejected",
                 error |-> GenerateProjectCatch(
                             IF inScaffoldProject
                               THEN ScaffoldProjectCatch(Error(kind, at))
                               ELSE Error(kind, at))]

\* generateProject up to its first await: the validation of the options.
GenerateProjectWith(optionSet) ==
  /\ UNCHANGED <<featVars, manVars, auxVars>>
  /\ pc = "idle"
  /\ \E options \in optionSet :
       /\ request' = options
       /\ \/ /\ ValidateOptions(options) = "required"
             /\ Fail("required", "validate", FALSE)
          \/ /\ ValidateOptions(options) = "invalid"
             /\ Fail("invalid", "validate", FALSE)
          \/ /\ ValidateOptions(options) = "ok"
             /\ pc' = "checkExists"
             /\ UNCHANGED <<thrown, outcome>>
  /\ UNCHANGED <<templatesRoot, tmPc, target, preTarget, listing, template,
                 featIdx, log, packageJson>>

GenerateProject == GenerateProjectWith(Options)

\* if (await fs.pathExists(projectPath)) await fs.remove(projectPath)
RemoveExisting ==
  /\ UNCHANGED <<featVars, manVars, auxVars>>
  /\ pc = "checkExists"
  /\ \/ /\ ~target.exists
        /\ pc' = "ensureDir"
        /\ UNCHANGED <<target, thrown, outcome>>
     \/ /\ target.exists
        /\ target' = fsRemove(target)
        /\ pc' = "ensureDir"
        /\ UNCHANGED <<thrown, outcome>>
     \/ /\ target.exists
        /\ \E k \in 0..(Cardinality(DOMAIN target.files) - 1) :
             target' = [exists |-> TRUE, files |-> RemoveFirst(target.files, k)]
        /\ Fail("io", "remove", FALSE)
  /\ UNCHANGED <<templatesRoot, tmPc, preTarget, request, listing, template,
                 featIdx, log, packageJson>>

\* scaffoldProject: await fs.ensureDir(details.projectPath)
EnsureDir ==
  /\ UNCHANGED <<featVars, manVars, auxVars>>
  /\ pc = "ensureDir"
  /\ \/ /\ target' = [target EXCEPT !.exists = TRUE]
        /\ pc' = "resolve"
        /\ UNCHANGED <<thrown, outcome>>
     \/ /\ Fail("io", "ensureDir", TRUE)
        /\ UNCHANGED target
  /\ UNCHANGED <<templatesRoot, tmPc, preTarget, request, listing, template,
                 featIdx, log, packageJson>>

\* generateFromTemplate up to the call of scaffoldFromTemplate.
Resolve ==
  /\ UNCHANGED <<featVars, manVars, auxVars>>
  /\ pc = "resolve"
  /\ \E order \in Orders(Readdir(templatesRoot)) :
       LET templates == listTemplates(templatesRoot, order)
           found == ResolveTemplate(templates, request.framework,
                                    ProjectDetails(request))
       IN  /\ listing' = templates
           /\ \/ /\ found = 0
                 /\ template' = ""
                 /\ Fail("notFound", "resolve", TRUE)
              \/ /\ found # 0
                 /\ template' = templates[found].name
                 /\ pc' = "scaffold"
                 /\ UNCHANGED <<thrown, outcome>>
  /\ log' = Append(log, Event("resolve", request.framework))
  /\ UNCHANGED <<templatesRoot, tmPc, target, preTarget, request, featIdx,
                 packageJson>>

\* scaffoldFromTemplate: the files are written one after the other; an I/O
\* error before the first write (glob, ensureDir, readFile) leaves the target
\* as it is, and one after k writes leaves those k on disk.
Scaffold ==
  /\ UNCHANGED <<featVars, manVars, auxVars>>
  /\ pc = "scaffold"
  /\ LET details == ProjectDetails(request)
         writes == ScaffoldWrites(templatesRoot[template].files,
                                  details.projectPath, details)
     IN  \/ /\ target' = [target EXCEPT !.files = FilesAfterFailure(@)]
            /\ Fail("io", "scaffold", TRUE)
            /\ UNCHANGED featIdx
         \/ /\ \E k \in 1..(Len(writes) - 1) :
                 target' = [target EXCEPT
                              !.files = FilesAfterFailure(ApplyWrites(@, writes, k))]
            /\ Fail("io", "scaffold", TRUE)
            /\ UNCHANGED featIdx
         \/ /\ target' = [target EXCEPT
                            !.files = ApplyWrites(@, writes, Len(writes))]
            /\ pc' = "features"
            /\ featIdx' = 1
            /\ UNCHANGED <<thrown, outcome>>
  /\ log' = Append(log, Event("scaffold", template))
  /\ listing' = <<>>
  /\ UNCHANGED <<templatesRoot, tmPc, preTarget, request, template, packageJson>>

\* One round of the feature loop: await templateManager.addFeature(...)
AddFeature ==
  /\ UNCHANGED <<featVars, manVars, auxVars>>
  /\ pc = "features"
  /\ featIdx <= Len(request.features)
  /\ LET details == ProjectDetails(request)
         feature == FeatureAt(details, featIdx)
         run == FeatureRun(target.files, feature, details)
     IN  /\ \/ /\ run.error = "none"
               /\ target' = [target EXCEPT
                               !.files = addFeature(@, feature, details).files]
               /\ featIdx' = featIdx + 1
               /\ UNCHANGED <<pc, thrown, outcome>>
            \/ /\ \E k \in FailurePoints(run) :
                    target' = [target EXCEPT
                                 !.files = FilesAfterFailure(
                                             ApplyWrites(@, run.writes, k))]
               /\ Fail("io", "addFeature", TRUE)
               /\ UNCHANGED featIdx
         /\ log' = Append(log, Event("addFeature", feature))
  /\ UNCHANGED <<templatesRoot, tmPc, preTarget, request, listing, template,
                 packageJson>>

\* await createPackageJson(details), after the loop
CreatePackageJson ==
  /\ UNCHANGED <<featVars, manVars, auxVars>>
  /\ pc = "features"
  /\ featIdx > Len(request.features)
  /\ LET details == ProjectDetails(request)
         writes == PackageJsonWrites(details)
     IN  \/ /\ Fail("io", "createPackageJson", TRUE)
            /\ target' = [target EXCEPT !.files = FilesAfterFailure(@)]
            /\ UNCHANGED packageJson
         \/ /\ target' = [target EXCEPT
                            !.files = ApplyWrites(@, writes, Len(writes))]
            /\ packageJson' = PackageJson(details)
            /\ pc' = "install"
            /\ UNCHANGED <<thrown, outcome>>
  /\ log' = Append(log, Event("createPackageJson", "package.json"))
  /\ UNCHANGED <<templatesRoot, tmPc, preTarget, request, listing, template,
                 featIdx>>

\* installDependencies (a message and a delay), then the success result.
InstallDependencies ==
  /\ UNCHANGED <<featVars, manVars, auxVars>>
  /\ pc = "install"
  /\ pc' = "done"
  /\ outcome' = [status |-> "fulfilled", error |-> NoError]
  /\ UNCHANGED <<templatesRoot, tmPc, target, preTarget, request, listing,
                 template, featIdx, log, thrown, packageJson>>

Next ==
  \/ TMInit
  \/ GenerateProject
  \/ RemoveExisting
  \/ EnsureDir
  \/ Resolve
  \/ Scaffold
  \/ AddFeature
  \/ CreatePackageJson
  \/ InstallDependencies

Spec == Init /\ [][Next]_vars

(***************************************************************************)
(* The feature composer on its own: addFeature applied, again and again,   *)
(* to a scaffolded project directory.                                      *)
(***************************************************************************)
SupportedFeatures == {"eslint", "prettier", "jest", "tailwind", "docker"}
ComposerFeatures == SupportedFeatures \cup {"cypress"}
ComposerFrameworks == {"react", "vue", "express", "vanilla"}

\* The directory scaffoldFromTemplate produces from the files of a template.
Scaffolded(templateData) ==
  LET details == ProjectDetails([name |-> DemoApp,
                                 framework |-> templateData.framework,
                                 features |-> <<>>])
      writes == ScaffoldWrites(generateTemplateFiles(templateData),
                               details.projectPath, details)
  IN  ApplyWrites(EmptyFiles, writes, Len(writes))

GenParked ==
  /\ templatesRoot = EmptyRoot /\ target = NoDir /\ preTarget = NoDir
  /\ GenIdle

FeatureInit ==
  /\ GenParked /\ ManInit /\ AuxInit
  /\ fframework \in ComposerFrameworks
  /\ \E ts \in {<<>>, <<"typescript">>} :
       fproj = Scaffolded([framework |-> fframework, features |-> ts])
  /\ fbase = fproj /\ fprev = fproj
  /\ flast = "" /\ fcount = 0 /\ fapplied = 0 /\ ferror = "none"

\* templateManager.addFeature(projectPath, feature, details)
ApplyFeature ==
  /\ fapplied < MaxApply
  /\ \E feature \in ComposerFeatures :
       LET done == addFeature(fproj, feature, [framework |-> fframework])
       IN  /\ fproj' = done.files
           /\ ferror' = done.error
           /\ fprev' = fproj
           /\ flast' = feature
           /\ fcount' = IF feature = flast THEN fcount + 1 ELSE 1
           /\ fbase' = IF feature = flast THEN fbase ELSE fproj
  /\ fapplied' = fapplied + 1
  /\ UNCHANGED <<fframework, genVars, manVars, auxVars>>

FeatureNext == ApplyFeature

SpecFeature == FeatureInit /\ [][FeatureNext]_vars

(***************************************************************************)
(* The manifest builder on its own: createPackageJson's object for every   *)
(* framework and feature list.                                             *)
(***************************************************************************)
ManifestFrameworks ==
  {"react", "vue", "express", "vanilla", "svelte", "constructor", "__proto__"}
ManifestFeatureIds == {"typescript", "eslint", "prettier", "jest", "tailwind"}

ManifestInit ==
  /\ GenParked /\ FeatInit /\ AuxInit
  /\ mframework \in ManifestFrameworks
  /\ mfeatures \in SeqsUpTo(ManifestFeatureIds, MaxManifestFeatures)
  /\ mpackage = NoPackageJson
  /\ mpc = "input"

BuildManifest ==
  /\ mpc = "input"
  /\ mpackage' = PackageJson([name |-> DemoApp, framework |-> mframework,
                              features |-> mfeatures])
  /\ mpc' = "built"
  /\ UNCHANGED <<mframework, mfeatures, genVars, featVars, auxVars>>

ManifestNext == BuildManifest

SpecManifest == ManifestInit /\ [][ManifestNext]_vars

(***************************************************************************)
(* Properties of one generation (specification Spec).                      *)
(***************************************************************************)
BuiltinNames == {"react-basic", "vue-starter", "express-api"}

PathsOf(writes) == {writes[i][1] : i \in 1..Len(writes)}

\* The paths the running generation writes: the template's files, the files
\* of the requested features, and the manifest.
GeneratedPaths ==
  DOMAIN templatesRoot[template].files
  \cup UNION {PathsOf(FeatureRun(target.files, request.features[i],
                                 ProjectDetails(request)).writes) :
                i \in 1..Len(request.features)}
  \cup {"package.json"}

\* C1: the request {name: "demo-app", framework: "vanilla", features: []}
\* run against a registry that holds only the built-in templates leaves
\* exactly index.html, style.css, script.js and the manifest in the target,
\* and the manifest has no dependencies and the one script start.
C1_VanillaDemoApp ==
  ( /\ pc = "done"
    /\ request = [name |-> DemoApp, framework |-> "vanilla", features |-> <<>>]
    /\ DOMAIN templatesRoot = BuiltinNames )
  => /\ DOMAIN target.files = {"index.html", "style.css", "script.js", "package.json"}
     /\ packageJson.dependencies = <<>>
     /\ packageJson.scripts =
          [kind |-> "object", entries |-> << <<"start", "node index.js">> >>]

\* C2: after scaffolding, every copied template file holds the template's
\* content with every {{projectName}} replaced by details.name and every
\* {{projectDescription}} by details.description (or the empty string).
C2_TokensReplacedByName ==
  (pc = "features" /\ featIdx = 1)
  => \A p \in DOMAIN templatesRoot[template].files :
       /\ p \in DOMAIN target.files
       /\ target.files[p] =
            ReplaceAll(ReplaceAll(templatesRoot[template].files[p], PN,
                                  request.name),
                       PD, ProjectDetails(request).description)

\* C3: a generation that completes over an existing target directory leaves
\* no file of the earlier contents: every file of the target was written by
\* this generation.
C3_NoEarlierFileSurvives ==
  (pc = "done" /\ preTarget.exists)
  => /\ target.exists
     /\ DOMAIN target.files \subseteq GeneratedPaths
     /\ \A p \in DOMAIN target.files : target.files[p] # Stale

C3_Witness ==
  /\ pc = "done"
  /\ preTarget = StaleDir
  /\ "index.html" \in DOMAIN target.files

\* C4: a request without a name, without a framework or with a name that is
\* no valid package name fails before any effect on the target: the target
\* is as it was, whether it existed or not, and no pipeline step has run.
C4_InvalidRequestTouchesNothing ==
  ( /\ pc # "idle"
    /\ \/ request.name = NoText
       \/ request.framework = ""
       \/ ~ValidForNewPackages(request.name) )
  => /\ pc = "failed"
     /\ outcome.status = "rejected"
     /\ outcome.error.kind \in {"required", "invalid"}
     /\ target = preTarget
     /\ log = <<>>

C4_Witness ==
  /\ pc = "failed"
  /\ request.name = InvalidName
  /\ request.framework # ""
  /\ outcome.error.kind = "invalid"
  /\ preTarget = StaleDir

\* C5: resolution returns the first template of the listing whose framework
\* equals the request; if none matches, the first template of the listing;
\* it fails with the not-found error exactly when the listing is empty.
C5_Resolution ==
  LET resolved == pc = "scaffold"
      notFound == pc = "failed" /\ thrown.at = "resolve"
      matches == {i \in 1..Len(listing) : listing[i].framework = request.framework}
  IN  /\ resolved =>
            /\ listing # <<>>
            /\ \E i \in 1..Len(listing) :
                 /\ listing[i].name = template
                 /\ matches # {} => (i \in matches /\ \A j \in matches : i <= j)
                 /\ matches = {} => i = 1
      /\ notFound => (listing = <<>> /\ thrown.kind = "notFound")
      /\ (pc = "failed" /\ thrown.kind = "notFound") => notFound

C5_Witness ==
  /\ pc = "scaffold"
  /\ Len(listing) >= 2
  /\ \A i \in 1..Len(listing) : listing[i].framework # request.framework
  /\ template = listing[1].name

\* C6: a generation is a sequential pipeline: resolution, scaffolding, one
\* addFeature per requested feature in the caller's order, then the manifest
\* write; the manifest is written once, and nothing writes to the target
\* after it.
ExpectedLog ==
  << Event("resolve", request.framework), Event("scaffold", template) >>
  \o [i \in 1..Len(request.features) |-> Event("addFeature", request.features[i])]
  \o << Event("createPackageJson", "package.json") >>

C6_PipelineOrder ==
  /\ IsPrefix(log, ExpectedLog)
  /\ pc \in {"install", "done"} =>
       /\ log = ExpectedLog
       /\ target.files["package.json"] =
            StringifyPackageJson(PackageJson(ProjectDetails(request)))
  /\ pc \notin {"install", "done", "failed"} =>
       \A i \in 1..Len(log) : log[i].op # "createPackageJson"

C6_NothingAfterManifest ==
  pc \in {"install", "done"} => (target' = target /\ log' = log)

C6_SequentialPipeline ==
  /\ []C6_PipelineOrder
  /\ [][C6_NothingAfterManifest]_vars

C6_Witness ==
  /\ pc = "done"
  /\ Len(request.features) = 2
  /\ request.features[1] # request.features[2]

\* C7: when scaffolding or a feature application fails, the following steps
\* do not run (no later feature, no manifest), the caller gets the very
\* error that was raised, and the files written before stay as they are.
C7_FailedState ==
  (pc = "failed" /\ thrown.at \in {"scaffold", "addFeature"})
  => /\ outcome = [status |-> "rejected", error |-> thrown]
     /\ log # <<>>
     /\ log[Len(log)].op = thrown.at
     /\ IsPrefix(log, ExpectedLog)
     /\ \A i \in 1..Len(log) : log[i].op # "createPackageJson"
     /\ packageJson = NoPackageJson
     /\ "package.json" \notin DOMAIN target.files

C7_FailingStepKeepsFiles ==
  (pc \in {"scaffold", "features"} /\ pc' = "failed")
  => \A p \in DOMAIN target.files :
       p \in DOMAIN target'.files /\ target'.files[p] = target.files[p]

C7_NothingAfterFailure ==
  pc = "failed"
  => (pc' = "failed" /\ target' = target /\ log' = log /\ outcome' = outcome)

C7_FailureAborts ==
  /\ []C7_FailedState
  /\ [][C7_FailingStepKeepsFiles]_vars
  /\ [][C7_NothingAfterFailure]_vars

C7_Witness ==
  /\ pc = "failed"
  /\ thrown.at = "addFeature"
  /\ featIdx < Len(request.features)
  /\ DOMAIN target.files # {}

(***************************************************************************)
(* A web generation request: generateProject raced against a timer.        *)
(***************************************************************************)
WebOptions ==
  [name : {DemoApp, InvalidName}, framework : {"react"},
   features : SeqsUpTo({"eslint", "docker"}, MaxWebFeatures)]

WebInit ==
  /\ templatesRoot \in {CustomRoot, BrokenRoot}
  /\ target \in InitialTargets
  /\ preTarget = target
  /\ GenIdle /\ FeatInit /\ ManInit /\ SubInit /\ RegInit /\ CfgInit /\ WebIdle
  /\ StartIdle /\ RaceIdle

\* const generationPromise = generateProject(options)
WebGenerateProject == GenerateProjectWith(WebOptions)

\* Mutant of TimeoutLeavesPipeline: the timeout stops the generation.
TimeoutCancelsPipeline(position) == "failed"

\* The callback of setTimeout rejects the timeout promise and does nothing
\* else: generateProject stays where it is.
TimeoutLeavesPipeline(position) == position

\* The timer fires while generateProject is pending: Promise.race rejects
\* and the catch block answers with status 500.
Timeout ==
  /\ reply = NoReply
  /\ pc \notin {"idle", "done", "failed"}
  /\ reply' = TimedOut
  /\ sent' = sent + 1
  /\ atTimeout' = target
  /\ pc' = TimeoutLeavesPipeline(pc)
  /\ UNCHANGED <<templatesRoot, tmPc, target, preTarget, request, listing,
                 template, featIdx, log, thrown, outcome, packageJson>>
  /\ UNCHANGED <<featVars, manVars, subVars, regVars, cfgVars, startVars, raceVars>>

\* generateProject settles first: the answer is its result or its error.
Respond ==
  /\ reply = NoReply
  /\ pc \in {"done", "failed"}
  /\ reply' = IF pc = "done" THEN [status |-> "success", error |-> ""]
              ELSE [status |-> "error", error |-> outcome.error.kind]
  /\ sent' = sent + 1
  /\ UNCHANGED <<atTimeout, genVars, featVars, manVars, subVars, regVars, cfgVars,
                 startVars, raceVars>>

\* The steps of generateProject after its synchronous part.
PipelineStep ==
  \/ RemoveExisting
  \/ EnsureDir
  \/ Resolve
  \/ Scaffold
  \/ AddFeature
  \/ CreatePackageJson
  \/ InstallDependencies

WebNext ==
  \/ WebGenerateProject
  \/ PipelineStep
  \/ Timeout
  \/ Respond

SpecWeb == WebInit /\ [][WebNext]_vars

\* Every await of the pipeline is on a file-system call or a timer of the
\* process, which end; so a pending step is taken.
SpecWebLive == SpecWeb /\ WF_vars(PipelineStep)

(***************************************************************************)
(* The template registry on its own: listTemplates, ensureDefaultTemplates *)
(* and createTemplate called, one after the other, on a templates root.    *)
(***************************************************************************)
TemplateDatas ==
  [name : {"", "my-app", "react-basic"}, framework : {"react", "angular"},
   features : {<<>>, <<"typescript">>}]

RegistryInit ==
  /\ templatesRoot \in InitialRoots
  /\ target = NoDir /\ preTarget = NoDir
  /\ GenIdle /\ FeatInit /\ ManInit /\ SubInit /\ RegInit /\ CfgInit /\ WebIdle
  /\ StartIdle /\ RaceIdle

RegistryFrame ==
  UNCHANGED <<tmPc, target, preTarget, request, pc, template, featIdx, log,
              thrown, outcome, packageJson, featVars, manVars, subVars, cfgVars,
              webVars, startVars, raceVars>>

\* templateManager.listTemplates()
RegistryList ==
  /\ rcount < MaxRegistryOps
  /\ \E order \in Orders(Readdir(templatesRoot)) :
       listing' = listTemplates(templatesRoot, order)
  /\ rop' = [op |-> "list", data |-> NoTemplateData, status |-> "ok"]
  /\ rprev' = templatesRoot
  /\ rcount' = rcount + 1
  /\ UNCHANGED templatesRoot
  /\ RegistryFrame

\* templateManager.ensureDefaultTemplates()
RegistryEnsureDefaults ==
  /\ rcount < MaxRegistryOps
  /\ \E order \in Orders(Readdir(templatesRoot)) :
       templatesRoot' = ensureDefaultTemplates(templatesRoot, order)
  /\ rop' = [op |-> "ensureDefaults", data |-> NoTemplateData, status |-> "ok"]
  /\ rprev' = templatesRoot
  /\ rcount' = rcount + 1
  /\ UNCHANGED listing
  /\ RegistryFrame

\* templateManager.createTemplate(templateData), as POST /api/templates
\* calls it with the templateData of the request body.
RegistryCreate ==
  /\ rcount < MaxRegistryOps
  /\ \E templateData \in TemplateDatas :
       /\ templatesRoot' = createTemplate(templatesRoot, templateData)
       /\ rop' = [op |-> "create", data |-> templateData, status |-> "ok"]
  /\ rprev' = templatesRoot
  /\ rcount' = rcount + 1
  /\ UNCHANGED listing
  /\ RegistryFrame

RegistryNext ==
  \/ RegistryList
  \/ RegistryEnsureDefaults
  \/ RegistryCreate

SpecRegistry == RegistryInit /\ [][RegistryNext]_vars

(***************************************************************************)
(* The configuration on its own: the web server's and the settings menu's  *)
(* ConfigManager over one config.json.                                     *)
(***************************************************************************)
PersistedDocs ==
  {NoDoc} \cup {doc \in [ConfigKeys -> UNION {ConfigValues(k) : k \in ConfigKeys}] :
                  \A k \in ConfigKeys : doc[k] \in ConfigValues(k)}

\* req.body of POST /api/config: any settings
WebUpdates ==
  UNION {{u \in [keys -> UNION {ConfigValues(k) : k \in keys}] :
            \A k \in keys : u[k] \in ConfigValues(k)} :
         keys \in (SUBSET ConfigKeys) \ {{}}}

\* The answers of one settings menu: every setting of that menu.
MenuUpdates == {u \in WebUpdates : Cardinality(DOMAIN u) = 1}

ConfigInit ==
  /\ GenParked /\ FeatInit /\ ManInit /\ SubInit /\ RegInit /\ WebIdle
  /\ StartIdle /\ RaceIdle
  /\ cfgFile \in PersistedDocs
  /\ cfgMem = [m \in ConfigManagers |-> defaultConfig]
  /\ cfgReady = {} /\ cfgWrites = {} /\ cfgLast = NoCall
  /\ cfgIssued = 0 /\ cfgUsers = {} /\ cfgAllSaved = TRUE

ConfigFrame == UNCHANGED <<genVars, featVars, manVars, subVars, regVars, webVars, startVars, raceVars>>

\* await config.init() of server.js: an existing document is merged over
\* the defaults, a missing one is created from them, an unreadable one
\* leaves the defaults in memory.
ConfigManagerInit ==
  /\ WebManager \notin cfgReady
  /\ cfgWrites = {}
  /\ cfgMem' = [cfgMem EXCEPT ![WebManager] =
                  IF cfgFile \in {NoDoc, TornDoc} THEN defaultConfig
                  ELSE Merge(defaultConfig, cfgFile)]
  /\ cfgFile' = IF cfgFile = NoDoc THEN cfgMem[WebManager] ELSE cfgFile
  /\ cfgReady' = cfgReady \cup {WebManager}
  /\ UNCHANGED <<cfgWrites, cfgLast, cfgIssued, cfgUsers, cfgAllSaved>>
  /\ ConfigFrame

\* The synchronous part of updateConfig / resetToDefaults: this.config is
\* replaced and saveConfig hands the document, as it is now, to
\* fs.writeJson.  A write that is in flight together with another one is
\* marked as overlapped.
IssueWrite(manager, op, keys, config) ==
  /\ cfgIssued < MaxConfigCalls
  /\ cfgMem' = [cfgMem EXCEPT ![manager] = config]
  /\ cfgWrites' =
       {[w EXCEPT !.overlapped = TRUE] : w \in cfgWrites}
       \cup {[id |-> cfgIssued + 1, op |-> op, manager |-> manager,
              keys |-> keys, before |-> cfgFile, doc |-> config,
              overlapped |-> cfgWrites # {}]}
  /\ cfgIssued' = cfgIssued + 1
  /\ cfgUsers' = cfgUsers \cup {manager}
  /\ UNCHANGED <<cfgFile, cfgReady, cfgLast, cfgAllSaved>>
  /\ ConfigFrame

\* POST /api/config: requests are served as they arrive, so a second
\* updateConfig can start while the write of the first is in flight.
WebUpdateConfig ==
  /\ WebManager \in cfgReady
  /\ \E updates \in WebUpdates :
       IssueWrite(WebManager, "update", DOMAIN updates,
                  Merge(cfgMem[WebManager], updates))

\* A settings menu: the prompt is answered, then updateConfig is awaited.
MenuUpdateConfig ==
  /\ \A w \in cfgWrites : w.manager # SettingsManager
  /\ \E updates \in MenuUpdates :
       IssueWrite(SettingsManager, "update", DOMAIN updates,
                  Merge(cfgMem[SettingsManager], updates))

\* The reset menu: config.resetToDefaults()
ResetToDefaults ==
  /\ \A w \in cfgWrites : w.manager # SettingsManager
  /\ IssueWrite(SettingsManager, "reset", {}, defaultConfig)

\* fs.writeJson of one call ends, and with it the call: the file holds the
\* document of this write; or, if another write to the file was in flight
\* with it, possibly bytes of both; or the write fails, which saveConfig
\* only logs.
SaveConfigEnds ==
  \E w \in cfgWrites :
    /\ cfgWrites' = cfgWrites \ {w}
    /\ \/ cfgFile' = w.doc /\ UNCHANGED cfgAllSaved
       \/ w.overlapped /\ cfgFile' = TornDoc /\ UNCHANGED cfgAllSaved
       \/ cfgFile' = cfgFile /\ cfgAllSaved' = FALSE
    /\ cfgLast' = [op |-> w.op, manager |-> w.manager, keys |-> w.keys,
                   before |-> w.before, after |-> cfgFile',
                   overlapped |-> w.overlapped, saved |-> cfgFile' = w.doc]
    /\ UNCHANGED <<cfgMem, cfgReady, cfgIssued, cfgUsers>>
    /\ ConfigFrame

ConfigNext ==
  \/ ConfigManagerInit
  \/ WebUpdateConfig
  \/ MenuUpdateConfig
  \/ ResetToDefaults
  \/ SaveConfigEnds

SpecConfig == ConfigInit /\ [][ConfigNext]_vars

(***************************************************************************)
(* Substitution on its own: one template file, of any content, scaffolded  *)
(* for a request whose name passed validation.                             *)
(***************************************************************************)
TemplateFragments ==
  {"{{project", "Name}}", "Description}}", PN, PD, "<title>", " "}
TemplateContents ==
  {Join(pieces) : pieces \in SeqsUpTo(TemplateFragments, MaxFragments)}
CallerNames == {DemoApp, InvalidName}
CallerDescriptions == {"", "A demo app", PN, "$&"}

SubstituteInit ==
  /\ GenParked /\ FeatInit /\ ManInit /\ RegInit /\ CfgInit /\ WebIdle
  /\ StartIdle /\ RaceIdle
  /\ stemplate \in TemplateContents
  /\ soptions \in [name : CallerNames, description : CallerDescriptions]
  /\ swritten = ""
  /\ spc = "input"

\* generateProject up to the write of the file in scaffoldFromTemplate:
\* projectDetails takes the name and no description from the options, and
\* the path is passed where the name is expected.
Substitute ==
  /\ spc = "input"
  /\ ValidateOptions([name |-> soptions.name, framework |-> "react",
                      features |-> <<>>]) = "ok"
  /\ LET details == ProjectDetails([name |-> soptions.name,
                                    framework |-> "react", features |-> <<>>])
     IN  swritten' = SubstituteText(stemplate, Join(details.projectPath), details)
  /\ spc' = "written"
  /\ UNCHANGED <<stemplate, soptions, genVars, featVars, manVars, regVars, cfgVars,
                 webVars, startVars, raceVars>>

SubstituteNext == Substitute

SpecSubstitute == SubstituteInit /\ [][SubstituteNext]_vars

(***************************************************************************)
(* Properties of the feature composer (specification SpecFeature).         *)
(***************************************************************************)
CssPath == "src/index.css"

RECURSIVE Repeat(_, _)
Repeat(text, n) == IF n = 0 THEN <<>> ELSE text \o Repeat(text, n - 1)

\* C8: for every supported feature and every project directory, applying
\* the feature twice in succession leaves the directory as applying it once.
C8_EveryFeatureIdempotent ==
  (fcount >= 2 /\ flast \in SupportedFeatures) => fproj = fprev

\* C8 as amended: eslint, prettier, jest and docker are idempotent, and so
\* is tailwind on a project without src/index.css; on a project with
\* src/index.css a further tailwind prepends the directives once more and
\* changes nothing else.
C8_IdempotentExceptTailwindCss ==
  (fcount >= 2 /\ flast \in SupportedFeatures)
  => IF flast = "tailwind" /\ CssPath \in DOMAIN fprev
       THEN /\ DOMAIN fproj = DOMAIN fprev
            /\ fproj[CssPath] = TailwindDirectives \o fprev[CssPath]
            /\ fproj[CssPath] # fprev[CssPath]
            /\ \A p \in DOMAIN fprev \ {CssPath} : fproj[p] = fprev[p]
       ELSE fproj = fprev

C8_Witness ==
  /\ fcount = 2
  /\ flast = "tailwind"
  /\ CssPath \notin DOMAIN fproj
  /\ "tailwind.config.js" \in DOMAIN fproj

\* C9: tailwind always writes its config; an existing src/index.css becomes
\* the directives followed by its whole prior content, so n applications in
\* succession put n copies of the directives before the original content; a
\* missing src/index.css is not created, and no error is raised.
C9_TailwindPrepends ==
  (flast = "tailwind" /\ fcount >= 1)
  => /\ ferror = "none"
     /\ "tailwind.config.js" \in DOMAIN fproj
     /\ fproj["tailwind.config.js"] = TailwindConfig
     /\ IF CssPath \in DOMAIN fprev
          THEN /\ CssPath \in DOMAIN fbase
               /\ fproj[CssPath] = TailwindDirectives \o fprev[CssPath]
               /\ fproj[CssPath] = Repeat(TailwindDirectives, fcount) \o fbase[CssPath]
          ELSE CssPath \notin DOMAIN fproj

C9_Witness ==
  /\ flast = "tailwind"
  /\ fcount = 2
  /\ CssPath \in DOMAIN fproj

(***************************************************************************)
(* Properties of the manifest builder (specification SpecManifest).        *)
(***************************************************************************)
KeySet(entries) == {entries[i][1] : i \in 1..Len(entries)}

FrameworkScriptNames(framework) ==
  CASE framework \in {"react", "vue"} -> {"dev", "build", "preview"}
    [] framework = "express" -> {"start", "dev"}
    [] OTHER -> {"start"}

FrameworkDependencyNames(framework) ==
  CASE framework = "react" -> {"react", "react-dom"}
    [] framework = "vue" -> {"vue"}
    [] framework = "express" -> {"express"}
    [] OTHER -> {}

C12_NoTokenLeft ==
  spc = "written" => ~Contains(swritten, PN) /\ ~Contains(swritten, PD)


(***************************************************************************)
(* Properties of the template registry (specification SpecRegistry).       *)
(***************************************************************************)
ValidTemplates(root) == {n \in Readdir(root) : root[n].manifest = "valid"}

ListedNames == {listing[i].name : i \in 1..Len(listing)}

\* C13: listing never fails and skips only the bad entries: whatever
\* subdirectory has a missing or a corrupt template.json, the list holds
\* every subdirectory with a valid one.
C13_ListSkipsOnlyBadEntries ==
  rop.op = "list"
  => /\ rop.status = "ok"
     /\ ListedNames = ValidTemplates(templatesRoot)


\* C14: ensureDefaults creates the built-in templates iff no valid template
\* is listed, and with at least one valid template in the root it creates,
\* overwrites and deletes nothing, however often it runs.
C14_EnsureDefaultsOnlyWhenEmpty ==
  rop.op = "ensureDefaults"
  => /\ ValidTemplates(rprev) = {} =>
          /\ BuiltinNames \subseteq ValidTemplates(templatesRoot)
          /\ \A n \in DOMAIN rprev \ BuiltinNames : templatesRoot[n] = rprev[n]
     /\ ValidTemplates(rprev) # {} => templatesRoot = rprev

\* C15: createTemplate with an empty name fails with a validation error and
\* leaves the templates root as it was: no directory, no template.json.
C15_EmptyNameRejected ==
  (rop.op = "create" /\ rop.data.name = "")
  => /\ rop.status = "error"
     /\ templatesRoot = rprev


(***************************************************************************)
(* Properties of the configuration (specification SpecConfig).             *)
(***************************************************************************)
\* C16: an update is a merge: whatever entry point issued it, every setting
\* the update does not name has, in the persisted document after the
\* update, the value it had in the persisted document before it.
C16_UpdateIsMerge ==
  ( /\ cfgLast.op = "update"
    /\ cfgLast.saved /\ ~cfgLast.overlapped
    /\ cfgLast.before \notin {NoDoc, TornDoc} )
  => \A key \in ConfigKeys \ cfgLast.keys :
       cfgLast.after[key] = cfgLast.before[key]

\* C17: once every updateConfig and resetToDefaults call has completed,
\* overlapping calls of two web clients included, the persisted document
\* equals the configuration in memory of the manager that made the calls.
C17_PersistedEqualsMemory ==
  (cfgWrites = {} /\ cfgAllSaved)
  => \A m \in ConfigManagers : cfgUsers = {m} => cfgFile = cfgMem[m]


(***************************************************************************)
(* Further properties of one generation (specification Spec).              *)
(***************************************************************************)
\* C18: a project generated for React with TypeScript, ESLint and Prettier
\* contains src/App.tsx, src/main.tsx, src/index.css, public/index.html,
\* package.json, tsconfig.json, vite.config.js, .eslintrc.js, .prettierrc
\* and README.md.
C18_ReactProjectStructure ==
  ( /\ pc = "done"
    /\ request.framework = "react"
    /\ request.features = DemoFeatures
    /\ template = "react-basic" )
  => {"src/App.tsx", "src/main.tsx", "src/index.css", "public/index.html",
      "package.json", "tsconfig.json", "vite.config.js", ".eslintrc.js",
      ".prettierrc", "README.md"} \subseteq DOMAIN target.files


\* The files scaffolding writes for a request when the templates root is
\* enumerated in the given order (no file if resolution fails).
ScaffoldedUnder(order, options) ==
  LET templates == listTemplates(templatesRoot, order)
      found == FindTemplate(templates, options.framework)
      details == ProjectDetails(options)
  IN  IF found = 0 THEN <<>>
      ELSE ScaffoldWrites(templatesRoot[templates[found].name].files,
                          details.projectPath, details)

\* C19: the output is a function of the request: another generation with
\* the same framework, features and name writes files of the same names and
\* contents, in whatever order the templates root is enumerated.
C19_OutputIndependentOfOrder ==
  pc = "scaffold"
  => \A order \in Orders(Readdir(templatesRoot)) :
       ScaffoldedUnder(order, request) =
         ScaffoldWrites(templatesRoot[template].files,
                        ProjectDetails(request).projectPath,
                        ProjectDetails(request))


(***************************************************************************)
(* Properties of a web generation request (specification SpecWebLive).     *)
(***************************************************************************)
PipelineEnded == pc \in {"done", "failed"}

\* C20: when the timeout fires before the pipeline has finished, the caller
\* is told that the generation timed out, and the pipeline is not cancelled:
\* it goes on to completion or failure, and can write into the target after
\* the timeout response.
C20_ToldTimedOut ==
  reply = TimedOut
  => /\ reply.status = "error"
     /\ reply.error = "Project generation timed out"
     /\ pc # "idle"
     /\ PipelineEnded \/ ENABLED PipelineStep

C20_TimeoutTouchesNothing ==
  (reply = NoReply /\ reply' = TimedOut)
  => (~PipelineEnded /\ pc' = pc /\ target' = target /\ log' = log
      /\ outcome' = outcome)

C20_ReplyIsFinal == (reply # NoReply) => (reply' = reply)

C20_PipelineOutlivesTimeout ==
  /\ []C20_ToldTimedOut
  /\ [][C20_TimeoutTouchesNothing]_vars
  /\ [][C20_ReplyIsFinal]_vars
  /\ (reply = TimedOut) ~> PipelineEnded

C20_Witness ==
  /\ reply = TimedOut
  /\ pc = "done"
  /\ atTimeout.files # target.files
  /\ "package.json" \in DOMAIN target.files
  /\ "package.json" \notin DOMAIN atTimeout.files


\* C21: a feature the composer has no case for (typescript, cypress, ...)
\* raises no error and changes no file of the project, and the loop goes on
\* to the next feature.
C21_UnknownFeatureStep ==
  ( /\ pc = "features"
    /\ featIdx <= Len(request.features)
    /\ request.features[featIdx] \notin SupportedFeatures
    /\ log' # log )
  => /\ target' = target
     /\ pc' = "features"
     /\ featIdx' = featIdx + 1
     /\ thrown' = NoError
     /\ outcome' = Pending

C21_UnknownFeatureIsNoOp == [][C21_UnknownFeatureStep]_vars

C21_Witness ==
  /\ pc = "done"
  /\ request.features = <<"cypress", "eslint">>
  /\ ".eslintrc.json" \in DOMAIN target.files


(***************************************************************************)
(* Further properties of the template registry (specification SpecRegistry)*)
(***************************************************************************)
\* C22: templates are never changed in place: a template that exists with a
\* valid manifest has the same template.json and the same files after any
\* later operation.
C22_TemplatesNeverMutated ==
  \A n \in ValidTemplates(rprev) :
    n \in DOMAIN templatesRoot /\ templatesRoot[n] = rprev[n]


(***************************************************************************)
(* Process start: TemplateManager.init, begun by the constructor and never *)
(* awaited, next to a generation of the same process.  Every await of      *)
(* init is a step of its own (specification SpecStartup).                  *)
(***************************************************************************)
\* The ConfigManager instance of utils/templates.js.
TemplatesManager == "templates.js"

\* getConfig().templatesDirectory of a ConfigManager instance: the value
\* init() read from config.json, or the constructor's default without init().
getConfigTemplatesDir(manager, ready, persisted) ==
  IF manager \in ready THEN persisted ELSE DefaultTemplatesDir

StartupOptions ==
  [name : {DemoApp}, framework : {"react", "vanilla"},
   features : {<<>>, <<"eslint">>}]

StartupInit ==
  /\ templatesRoot = EmptyRoot
  /\ target \in InitialTargets
  /\ preTarget = target
  /\ GenIdle /\ FeatInit /\ ManInit /\ SubInit /\ RegInit /\ CfgInit /\ WebIdle
  /\ RaceIdle
  /\ tmDir = NullDir /\ tmCreate = NotCreating
  /\ cfgTemplatesDir \in {DefaultTemplatesDir, CustomTemplatesDir}

StartupGenFrame ==
  UNCHANGED <<target, preTarget, request, pc, listing, template, featIdx, log,
              thrown, outcome, packageJson>>

StartupFrame ==
  UNCHANGED <<featVars, manVars, subVars, regVars, webVars, raceVars,
              cfgTemplatesDir>>

\* "await config.init()" of cli.js and server.js, on their own instance.
StartupConfigInit ==
  /\ WebManager \notin cfgReady
  /\ cfgReady' = cfgReady \cup {WebManager}
  /\ UNCHANGED <<cfgFile, cfgMem, cfgWrites, cfgLast, cfgIssued, cfgUsers,
                 cfgAllSaved, templatesRoot, tmPc, tmDir, tmCreate>>
  /\ StartupGenFrame /\ StartupFrame

\* init up to ensureDefaultTemplates: templatesDir is taken from the
\* module's own ConfigManager, on which init() is never called.
TMConfigure ==
  /\ tmPc = "constructed"
  /\ tmDir' = getConfigTemplatesDir(TemplatesManager, cfgReady, cfgTemplatesDir)
  /\ tmPc' = "configured"
  /\ UNCHANGED <<templatesRoot, tmCreate, cfgVars>>
  /\ StartupGenFrame /\ StartupFrame

\* ensureDefaultTemplates: ensureDir, listTemplates, and the decision to
\* create the built-ins; an error is logged and ends init.
TMEnsureDefaults ==
  /\ tmPc = "configured"
  /\ \/ \E order \in Orders(Readdir(templatesRoot)) :
          IF Len(listTemplates(templatesRoot, order)) = 0
            THEN tmPc' = "creating" /\ tmCreate' = [template |-> 1, written |-> 0]
            ELSE tmPc' = "ready" /\ UNCHANGED tmCreate
     \/ tmPc' = "ready" /\ UNCHANGED tmCreate
  /\ UNCHANGED <<templatesRoot, tmDir, cfgVars>>
  /\ StartupGenFrame /\ StartupFrame

\* The templates root after the next await of createTemplate has returned:
\* ensureDir, then template.json, then the framework's files one by one.
CreateTemplateStep(root, templateData, written) ==
  LET name == templateData.name
      files == generateTemplateFiles(templateData)
      paths == GlobFiles(files)
      old == IF name \in DOMAIN root THEN root[name]
             ELSE TemplateDir("none", "", <<>>, EmptyFiles)
      new == CASE written = 0 -> old
               [] written = 1 -> TemplateDir("valid", templateData.framework,
                                             templateData.features, old.files)
               [] OTHER -> [old EXCEPT !.files =
                              (paths[written - 1] :> files[paths[written - 1]]) @@ @]
  IN  [n \in DOMAIN root \cup {name} |-> IF n = name THEN new ELSE root[n]]

\* Number of awaits createTemplate makes for a template.
CreateTemplateSteps(templateData) ==
  2 + Len(GlobFiles(generateTemplateFiles(templateData)))

\* createDefaultTemplates, one await at a time; an error ends init.
TMCreateStep ==
  /\ tmPc = "creating"
  /\ LET data == defaultTemplates[tmCreate.template]
         last == tmCreate.written + 1 = CreateTemplateSteps(data)
     IN  \/ /\ templatesRoot' = CreateTemplateStep(templatesRoot, data, tmCreate.written)
            /\ IF ~last
                 THEN tmCreate' = [tmCreate EXCEPT !.written = @ + 1]
                      /\ UNCHANGED tmPc
                 ELSE IF tmCreate.template < Len(defaultTemplates)
                   THEN tmCreate' = [template |-> tmCreate.template + 1, written |-> 0]
                        /\ UNCHANGED tmPc
                   ELSE tmCreate' = NotCreating /\ tmPc' = "ready"
         \/ /\ tmPc' = "ready"
            /\ UNCHANGED <<templatesRoot, tmCreate>>
  /\ UNCHANGED <<tmDir, cfgVars>>
  /\ StartupGenFrame /\ StartupFrame

\* generateProject called in this process.  Its first await is on the file
\* system, so the continuation of init after "await config.getConfig()"
\* has run before the pipeline goes on.
StartupGenerateProject ==
  /\ tmPc # "constructed"
  /\ GenerateProjectWith(StartupOptions)

StartupNext ==
  \/ StartupConfigInit
  \/ TMConfigure
  \/ TMEnsureDefaults
  \/ TMCreateStep
  \/ StartupGenerateProject
  \/ PipelineStep

SpecStartup == StartupInit /\ [][StartupNext]_vars

\* The registry a process holds once createDefaultTemplates has returned.
BuiltinRegistry == createDefaultTemplates(EmptyRoot)

\* C23: the TemplateManager of a started process works on the
\* templatesDirectory of the persisted configuration.
C23_RegistryOnConfiguredRoot == tmDir # NullDir => tmDir = cfgTemplatesDir

\* generateFromTemplate has listed the registry and not yet gone on.
AtResolution == pc = "scaffold" \/ (pc = "failed" /\ thrown.at = "resolve")

RECURSIVE ApplyFeatures(_, _, _)
ApplyFeatures(files, features, projectDetails) ==
  IF features = <<>> THEN files
  ELSE ApplyFeatures(addFeature(files, Head(features), projectDetails).files,
                     Tail(features), projectDetails)

\* The lists of distinct features the composer can be given.
DistinctFeatureLists ==
  {s \in SeqsUpTo(ComposerFeatures, MaxApply) :
     \A i, j \in 1..Len(s) : i # j => s[i] # s[j]}

\* Any two orderings of a list of distinct features leave the same files
\* with the same contents in the project the composer started from (seen
\* when the first feature has been added to it).
OrderIrrelevant ==
  fapplied = 1 =>
    \A a \in DistinctFeatureLists :
      \A b \in Orders({a[i] : i \in 1..Len(a)}) :
        ApplyFeatures(fprev, a, [framework |-> fframework])
          = ApplyFeatures(fprev, b, [framework |-> fframework])

\* A feature applied after a different one: the directory is the one the
\* two leave when they run in the other order.
CommutesWithLast ==
  (fcount = 1 /\ fapplied' = fapplied + 1 /\ flast' # flast)
    => fproj' = ApplyFeatures(fbase, <<flast', flast>>, [framework |-> fframework])

\* C25: features are independent of each other: on every scaffolded project
\* all orderings of a list of distinct features give identical directories,
\* and every addFeature call commutes with the call before it.
C25_FeatureOrderIrrelevant == []OrderIrrelevant /\ [][CommutesWithLast]_vars

\* Tailwind and then docker were added to a scaffolded React project: the
\* directory is the one docker and then tailwind produce.
C25_Witness ==
  /\ fapplied = 2 /\ flast = "docker" /\ fframework = "react"
  /\ "tailwind.config.js" \in DOMAIN fproj
  /\ \E ts \in {<<>>, <<"typescript">>} :
       fproj = ApplyFeatures(Scaffolded([framework |-> "react", features |-> ts]),
                             <<"docker", "tailwind">>, [framework |-> "react"])


(***************************************************************************)
(* Two generations for the same project name running concurrently in one   *)
(* process (two web requests).  Each await of generateProject is a step;   *)
(* the writes of one scaffoldFromTemplate call are taken together, and the *)
(* only failures are those the other generation causes (specification      *)
(* SpecRace).                                                              *)
(***************************************************************************)
RaceOptions ==
  [name : {DemoApp}, framework : {"react", "vanilla"},
   features : {<<>>, <<"docker">>}]

RaceInit ==
  /\ templatesRoot = CustomRoot
  /\ tmPc = "ready"
  /\ target \in InitialTargets
  /\ preTarget = target
  /\ request = NoRequest /\ pc = "idle" /\ listing = <<>> /\ template = ""
  /\ featIdx = 0 /\ log = <<>> /\ thrown = NoError /\ outcome = Pending
  /\ packageJson = NoPackageJson
  /\ FeatInit /\ ManInit /\ SubInit /\ RegInit /\ CfgInit /\ WebIdle /\ StartIdle
  /\ RaceIdle

RaceFrame ==
  UNCHANGED <<templatesRoot, tmPc, preTarget, request, pc, listing, template,
              featIdx, log, thrown, outcome, packageJson, featVars, manVars,
              subVars, regVars, cfgVars, webVars, startVars>>

\* Mutant of Unlocked: a generation waits while another one is between its
\* removal of the target and its end.
LockedByOthers(p, positions) ==
  \A q \in DOMAIN positions \ {p} : positions[q] \in {"idle", "done", "failed"}

\* generateProject and scaffoldProject take no lock on projectPath: a step
\* of one call waits for nothing but its own await.
Unlocked(p, positions) == TRUE

RaceMove(p, position) == racePc' = [racePc EXCEPT ![p] = position]

\* generateProject(options) up to its first await.
RaceGenerateProject(p) ==
  /\ racePc[p] = "idle"
  /\ \E options \in RaceOptions :
       /\ ValidateOptions(options) = "ok"
       /\ raceOptions' = [raceOptions EXCEPT ![p] = options]
  /\ RaceMove(p, "checkExists")
  /\ UNCHANGED <<target, raceTemplate>>
  /\ RaceFrame

\* if (await fs.pathExists(projectPath)) await fs.remove(projectPath)
RaceRemoveExisting(p) ==
  /\ racePc[p] = "checkExists" /\ Unlocked(p, racePc)
  /\ target' = IF target.exists THEN NoDir ELSE target
  /\ RaceMove(p, "ensureDir")
  /\ UNCHANGED <<raceOptions, raceTemplate>>
  /\ RaceFrame

\* await fs.ensureDir(details.projectPath)
RaceEnsureDir(p) ==
  /\ racePc[p] = "ensureDir" /\ Unlocked(p, racePc)
  /\ target' = [target EXCEPT !.exists = TRUE]
  /\ RaceMove(p, "resolve")
  /\ UNCHANGED <<raceOptions, raceTemplate>>
  /\ RaceFrame

\* generateFromTemplate up to the call of scaffoldFromTemplate.
RaceResolve(p) ==
  /\ racePc[p] = "resolve" /\ Unlocked(p, racePc)
  /\ \E order \in Orders(Readdir(templatesRoot)) :
       LET templates == listTemplates(templatesRoot, order)
           found == FindTemplate(templates, raceOptions[p].framework)
       IN  IF found = 0
             THEN RaceMove(p, "failed") /\ UNCHANGED raceTemplate
             ELSE /\ RaceMove(p, "scaffold")
                  /\ raceTemplate' = [raceTemplate EXCEPT ![p] = templates[found].name]
  /\ UNCHANGED <<target, raceOptions>>
  /\ RaceFrame

\* scaffoldFromTemplate: fs.ensureDir(path.dirname(targetPath)) before each
\* write brings the project directory back if it has been removed.
RaceScaffold(p) ==
  /\ racePc[p] = "scaffold" /\ Unlocked(p, racePc)
  /\ \E writes \in {ScaffoldWrites(templatesRoot[raceTemplate[p]].files,
                                   ProjectPath(raceOptions[p].name),
                                   ProjectDetails(raceOptions[p]))} :
       target' = [exists |-> TRUE,
                  files |-> ApplyWrites(target.files, writes, Len(writes))]
  /\ RaceMove(p, "features")
  /\ UNCHANGED <<raceOptions, raceTemplate>>
  /\ RaceFrame

\* The feature loop (RaceOptions has lists of one feature at most).  The
\* feature methods write with fs.writeFile and fs.writeJson, which fail in
\* a directory that is gone.
RaceAddFeatures(p) ==
  /\ racePc[p] = "features" /\ Unlocked(p, racePc)
  /\ IF raceOptions[p].features = <<>> \/ target.exists
       THEN /\ target' = [target EXCEPT
                            !.files = ApplyFeatures(@, raceOptions[p].features,
                                                    ProjectDetails(raceOptions[p]))]
            /\ RaceMove(p, "packageJson")
       ELSE /\ RaceMove(p, "failed")
            /\ UNCHANGED target
  /\ UNCHANGED <<raceOptions, raceTemplate>>
  /\ RaceFrame

\* createPackageJson (fs.writeJson), installDependencies and the result.
RaceCreatePackageJson(p) ==
  /\ racePc[p] = "packageJson" /\ Unlocked(p, racePc)
  /\ \E writes \in {PackageJsonWrites(ProjectDetails(raceOptions[p]))} :
       IF target.exists
         THEN /\ target' = [target EXCEPT
                              !.files = ApplyWrites(@, writes, Len(writes))]
              /\ RaceMove(p, "done")
         ELSE /\ RaceMove(p, "failed")
              /\ UNCHANGED target
  /\ UNCHANGED <<raceOptions, raceTemplate>>
  /\ RaceFrame

RaceStep(p) ==
  \/ RaceRemoveExisting(p)
  \/ RaceEnsureDir(p)
  \/ RaceResolve(p)
  \/ RaceScaffold(p)
  \/ RaceAddFeatures(p)
  \/ RaceCreatePackageJson(p)

RaceNext == \E p \in Racers : RaceGenerateProject(p) \/ RaceStep(p)

SpecRace == RaceInit /\ [][RaceNext]_vars

\* The project directory generation p leaves when it runs alone with the
\* template it resolved.
AloneFiles(p) ==
  LET details == ProjectDetails(raceOptions[p])
      writes == ScaffoldWrites(templatesRoot[raceTemplate[p]].files,
                               details.projectPath, details)
      scaffolded == ApplyWrites(EmptyFiles, writes, Len(writes))
      featured == ApplyFeatures(scaffolded, details.features, details)
      manifest == PackageJsonWrites(details)
  IN  ApplyWrites(featured, manifest, Len(manifest))

RaceRunning(p) == racePc[p] \notin {"idle", "done", "failed"}

\* C26: two generations with the same project name are not mutually
\* excluded: wherever the other one stands, a running generation can take
\* its next step on the shared target directory.
C26_NoMutualExclusion ==
  \A p \in Racers : RaceRunning(p) => ENABLED RaceStep(p)

\* Both generations have returned successfully and the target directory is
\* the directory of neither: it holds files of both.
C26_Witness ==
  /\ \A p \in Racers : racePc[p] = "done"
  /\ \A p \in Racers : target.files # AloneFiles(p)
  /\ \E f \in DOMAIN target.files : f \notin DOMAIN AloneFiles(1)
  /\ \E f \in DOMAIN target.files : f \notin DOMAIN AloneFiles(2)

\* One generation removed the directory the other one was writing to, and
\* the other one failed.
RaceOneFails ==
  \E p, q \in Racers : racePc[p] = "failed" /\ racePc[q] = "done"


(***************************************************************************)
(* Further properties of the generation pipeline (specification Spec).     *)
(***************************************************************************)
\* C27: a successful generation for framework react has src/App.tsx,
\* src/main.tsx and tsconfig.json if typescript is among the requested
\* features, and src/App.jsx, src/main.jsx and no tsconfig.json otherwise.
C27_ExtensionFollowsRequest ==
  (pc = "done" /\ request.framework = "react")
    => IF Includes(request.features, "typescript")
         THEN /\ {"src/App.tsx", "src/main.tsx", "tsconfig.json"}
                   \subseteq DOMAIN target.files
              /\ {"src/App.jsx", "src/main.jsx"} \cap DOMAIN target.files = {}
         ELSE /\ {"src/App.jsx", "src/main.jsx"} \subseteq DOMAIN target.files
              /\ {"src/App.tsx", "src/main.tsx", "tsconfig.json"}
                   \cap DOMAIN target.files = {}


(***************************************************************************)
(* Requests that carry the optional template field (specification          *)
(* SpecTemplate).                                                          *)
(***************************************************************************)
TemplateOptions ==
  [name : {DemoApp}, framework : {"react", "vanilla"},
   features : {<<>>, <<"eslint">>},
   template : {Undefined, "my-vanilla", "my-react-ts", "missing"}]

TemplateInit ==
  /\ templatesRoot \in {CustomRoot, StrayRoot}
  /\ target \in InitialTargets
  /\ preTarget = target
  /\ GenIdle /\ FeatInit /\ ManInit /\ AuxInit

TemplateGenerateProject == GenerateProjectWith(TemplateOptions)

TemplateNext ==
  \/ TemplateGenerateProject
  \/ PipelineStep

SpecTemplate == TemplateInit /\ [][TemplateNext]_vars

\* The options without the template field.
WithoutTemplate(options) ==
  [f \in DOMAIN options \ {"template"} |-> options[f]]

\* The project directory a generation leaves when it ends successfully
\* with the given template resolved.
GeneratedFiles(root, templateName, options) ==
  LET details == ProjectDetails(options)
      writes == ScaffoldWrites(root[templateName].files, details.projectPath,
                               details)
      scaffolded == ApplyWrites(EmptyFiles, writes, Len(writes))
      featured == ApplyFeatures(scaffolded, details.features, details)
      manifest == PackageJsonWrites(details)
  IN  ApplyWrites(featured, manifest, Len(manifest))

\* Resolution picks what the framework and the listing determine.
ResolutionByFramework ==
  (pc = "resolve" /\ pc' = "scaffold")
    => template' = listing'[FindTemplate(listing', request.framework)].name

\* The target of a finished generation is the directory the same request
\* without its template field produces from the resolved template.
TargetWithoutTemplateField ==
  pc = "done"
    => target.files = GeneratedFiles(templatesRoot, template, WithoutTemplate(request))

C29_RemovedBeforeResolution ==
  (pc = "resolve" \/ (pc = "failed" /\ thrown.kind = "notFound"))
    => target.exists /\ target.files = EmptyFiles

\* A generation over an existing project has failed for want of a template.
C29_Witness ==
  /\ pc = "failed" /\ thrown.kind = "notFound"
  /\ preTarget = StaleDir
  /\ target = [exists |-> TRUE, files |-> EmptyFiles]


(***************************************************************************)
(* The handler of POST /api/generate from the arrival of the request: the  *)
(* check of the body, generateProject raced against the timer, and the     *)
(* response (specification SpecHttp).                                      *)
(***************************************************************************)
HttpBodies ==
  [name : {NoText, DemoApp, InvalidName}, framework : {"", "react"},
   features : SeqsUpTo({"eslint", "docker"}, MaxWebFeatures)]

\* res.status(400).json({success: false, error: ...})
BadRequest ==
  [status |-> "badRequest", error |-> "Project name and framework are required"]

\* Mutant of MissingFields: only the name is looked at.
MissingName(body) == body.name = NoText

\* if (!name || !framework)
MissingFields(body) == body.name = NoText \/ body.framework = ""

HttpInit ==
  /\ templatesRoot \in {CustomRoot, BrokenRoot}
  /\ target \in InitialTargets
  /\ preTarget = target
  /\ GenIdle /\ FeatInit /\ ManInit /\ AuxInit

\* A body without name or framework is answered at once, in the handler's
\* synchronous part; generateProject is not called.
HttpBadRequest ==
  /\ reply = NoReply /\ pc = "idle"
  /\ \E body \in HttpBodies : MissingFields(body)
  /\ reply' = BadRequest
  /\ sent' = sent + 1
  /\ UNCHANGED <<atTimeout, genVars, featVars, manVars, subVars, regVars, cfgVars,
                 startVars, raceVars>>

\* const generationPromise = generateProject(options)
HttpGenerateProject ==
  /\ reply = NoReply
  /\ GenerateProjectWith({body \in HttpBodies : ~MissingFields(body)})

HttpNext ==
  \/ HttpBadRequest
  \/ HttpGenerateProject
  \/ PipelineStep
  \/ Timeout
  \/ Respond

SpecHttp == HttpInit /\ [][HttpNext]_vars

\* The timer of setTimeout fires, and a settled race resumes the handler;
\* nothing is assumed about the steps of generateProject.
SpecHttpLive == SpecHttp /\ WF_vars(Timeout \/ Respond)

\* At most one response, and the response fits what happened.
OneFittingResponse ==
  /\ sent \in {0, 1}
  /\ sent = 1 <=> reply # NoReply
  /\ pc # "idle" => request.name # NoText /\ request.framework # ""
  /\ reply = BadRequest => pc = "idle" /\ log = <<>> /\ target = preTarget
  /\ reply.status = "success" => pc = "done"
  /\ reply.status = "error" => reply = TimedOut \/ pc = "failed"

\* Once sent, the response stays: no step sends another.
NoSecondResponse == sent = 1 => sent' = sent /\ reply' = reply

\* C30: every POST /api/generate request receives exactly one response,
\* even if the pipeline never finishes: 400 without a call of
\* generateProject when name or framework is missing, success when the
\* generation completes first, 500 when it fails or the timer fires first;
\* a later settlement of the generation sends nothing.
C30_ExactlyOneResponse ==
  /\ []OneFittingResponse
  /\ [][NoSecondResponse]_vars
  /\ (pc # "idle") ~> (sent = 1)

\* The generation completed after the timeout had been answered: still one
\* response, the timeout.
C30_Witness == sent = 1 /\ reply = TimedOut /\ pc = "done"

====
